---- MODULE Spec2Model ----
(***************************************************************************)
(* Memory Hub: the session-sync engine (pull / push / resolve_conflict),   *)
(* the catalog job queue and the catalog worker, over one project store.   *)
(*                                                                         *)
(* The store is an SQLite database in WAL mode.  What the model keeps of   *)
(* SQLite: one writer at a time (wlock); a transaction that has read sees  *)
(* the snapshot of its first read; a transaction that has read and then    *)
(* writes is refused (SQLITE_BUSY, "database is locked") when another      *)
(* connection holds the write lock or has committed since the snapshot;    *)
(* a write that starts a transaction waits for the lock up to the busy     *)
(* timeout and is refused after it.                                        *)
(*                                                                         *)
(* Rows that the code orders by created_at are kept in insertion order:    *)
(* successive inserts carry increasing timestamps.                         *)
(***************************************************************************)
EXTENDS Integers, Sequences, FiniteSets, TLC

\* ---------------------------------------------------------------- bounds
\* largest context_stamp base a push carries
MaxStamp == 1
\* tool calls issued by the clients, all together
MaxCalls == 3
\* the clock stops here
MaxTime == 620
\* jobs already enqueued when the workers of SpecWorkers start
MaxJobs == 2
\* largest batch limit handed to process_catalog_jobs
MaxLimit == 2
\* calls of process_catalog_jobs made by one worker
MaxRuns == 1
\* the same, when one job is followed through its retries
MaxRetryRuns == 3

\* ------------------------------------------------------- program constants
DEFAULT_LEASE_SECONDS == 300
DEFAULT_MAX_ATTEMPTS == 5
MAX_RETRY_DELAY == 300
DEFAULT_HANDOFF_TTL_HOURS == 72
CLAIM_RETRIES == 8
BRIEF_JOB_LIMIT == 5
CACHE_MAX_SIZE == 256
CACHE_TTL_SECONDS == 1800
PER_ROLE_LIMIT == 8

\* ------------------------------------------------------------- universes
Clients == {"c1", "c2"}
Workers == {"w1", "w2"}
Procs == Clients \cup Workers
Workspaces == {"wsA", "wsB"}
NoWs == "none"
NoProc == "none"
PlainValues == {"a", "b"}
NoStamp == -1
\* a NULL next_retry_at or lease_expires_at
NullTime == -1

\* a (role, memory_key) pair
K1 == <<"architect", "k1">>
K2 == <<"dev", "k1">>

Max(a, b) == IF a >= b THEN a ELSE b
Min(a, b) == IF a <= b THEN a ELSE b
Last(s) == s[Len(s)]

RECURSIVE Pow2(_)
Pow2(n) == IF n <= 0 THEN 1 ELSE 2 * Pow2(n - 1)

\* ------------------------------------------------------------ JSON blobs
\* a value is a sequence of strings: <<v>> for a plain value, and
\* <<"merge_note", mine..., theirs...>> for a merge_note object; the stored
\* text is the value behind a "json" marker
json_dumps(value) == <<"json">> \o value
json_loads(raw, fallback) ==
    IF Len(raw) >= 1 /\ raw[1] = "json" THEN Tail(raw) ELSE fallback

JsonNull == <<"null">>

\* ------------------------------------------------------------ the schema
\* the migration files in version order
MIGRATIONS == <<"000", "001", "002", "003", "004", "005", "006">>

AllVersions == { MIGRATIONS[i] : i \in 1..Len(MIGRATIONS) }

\* the tables migration 000 creates, and those the migrations up to 005 add
CoreTables ==
    { "project_meta", "role_state_current", "role_state_versions",
      "open_loops", "handoff_packets", "sync_audit" }
CatalogTables ==
    { "catalog_meta", "catalog_files", "catalog_jobs", "consistency_links",
      "drift_reports" }

\* the directions sync_audit accepts before and after migration 006
OldDirections == {"pull", "push", "resolve_conflict"}
NewDirections ==
    OldDirections \cup {"catalog_brief", "catalog_health", "tool_error"}

\* the schema of a store: its tables, the versions recorded in
\* schema_migrations, and the directions each audit table accepts
Schema(tables, migrations, audit, audit_new) ==
    [ tables |-> tables, migrations |-> migrations,
      directions |-> [sync_audit |-> audit, sync_audit_new |-> audit_new] ]

\* a store file just created, and a store every migration has been applied to
NoSchema == Schema({}, {}, {}, {})
FullSchema ==
    Schema({"schema_migrations"} \cup CoreTables \cup CatalogTables,
           AllVersions, NewDirections, {})

\* migration 006 interrupted between DROP and RENAME: sync_audit_new is
\* there, sync_audit is not, 000 to 005 are recorded
HalfSchema ==
    Schema(({"schema_migrations", "sync_audit_new"} \cup CoreTables \cup CatalogTables)
               \ {"sync_audit"},
           AllVersions \ {"006"}, {}, NewDirections)

\* ------------------------------------------------------------- the store
\* One project's memory.db.  project_meta is memory_version and
\* workspace_root; the tables are sequences in insertion order, except
\* role_state_current, which holds one row per (role, memory_key).
InitDb ==
    [ memory_version |-> 0,
      workspace_root |-> NoWs,
      versions |-> <<>>,
      current |-> {},
      loops |-> <<>>,
      handoffs |-> <<>>,
      jobs |-> <<>>,
      links |-> <<>>,
      audit |-> <<>>,
      catalog |-> <<>>,
      drift |-> <<>>,
      schema |-> FullSchema,
      meta_row |-> TRUE ]

get_memory_version(d) == d.memory_version

\* a variant that skips a version
bump_memory_version_skip(d) ==
    [d EXCEPT !.memory_version = get_memory_version(d) + 2]

bump_memory_version(d) ==
    [d EXCEPT !.memory_version = get_memory_version(d) + 1]

RowsOfKey(d, key) ==
    { i \in 1..Len(d.versions) : d.versions[i].key = key }

\* a variant ordering ascending: the oldest row
NewestRowAscending(d, rows) ==
    CHOOSE i \in rows :
        \A j \in rows :
            \/ d.versions[i].memory_version < d.versions[j].memory_version
            \/ /\ d.versions[i].memory_version = d.versions[j].memory_version
               /\ i <= j

\* ORDER BY memory_version DESC, created_at DESC LIMIT 1 over a set of
\* row positions of role_state_versions
NewestRow(d, rows) ==
    CHOOSE i \in rows :
        \A j \in rows :
            \/ d.versions[i].memory_version > d.versions[j].memory_version
            \/ /\ d.versions[i].memory_version = d.versions[j].memory_version
               /\ i >= j

\* the version_id of the newest row of the key, 0 for none
latest_version_id(d, key) ==
    IF RowsOfKey(d, key) = {} THEN 0
    ELSE d.versions[NewestRow(d, RowsOfKey(d, key))].version_id

\* a variant that keeps an existing current row (INSERT OR IGNORE)
upsert_role_delta_keep(d, delta, client_id, memory_version) ==
    LET row == [ version_id |-> Len(d.versions) + 1,
                 key |-> delta.key,
                 value_json |-> json_dumps(delta.value),
                 created_by_client |-> client_id,
                 supersedes |-> latest_version_id(d, delta.key),
                 memory_version |-> memory_version ]
        cur == [ key |-> delta.key,
                 value_json |-> json_dumps(delta.value),
                 version |-> memory_version,
                 updated_by_client |-> client_id ]
    IN  [d EXCEPT
            !.versions = Append(@, row),
            !.current = IF \E r \in @ : r.key = delta.key THEN @ ELSE @ \cup {cur}]

upsert_role_delta(d, delta, client_id, memory_version) ==
    LET row == [ version_id |-> Len(d.versions) + 1,
                 key |-> delta.key,
                 value_json |-> json_dumps(delta.value),
                 created_by_client |-> client_id,
                 supersedes |-> latest_version_id(d, delta.key),
                 memory_version |-> memory_version ]
        cur == [ key |-> delta.key,
                 value_json |-> json_dumps(delta.value),
                 version |-> memory_version,
                 updated_by_client |-> client_id ]
    IN  [d EXCEPT
            !.versions = Append(@, row),
            !.current = { r \in @ : r.key # delta.key } \cup {cur}]

RECURSIVE UpsertAll(_, _, _, _)
UpsertAll(d, deltas, client_id, memory_version) ==
    IF deltas = <<>> THEN d
    ELSE UpsertAll(upsert_role_delta(d, Head(deltas), client_id, memory_version),
                   Tail(deltas), client_id, memory_version)

fetch_current_value(d, key) ==
    LET rows == { r \in d.current : r.key = key }
    IN  IF rows = {} THEN <<>>
        ELSE <<json_loads((CHOOSE r \in rows : TRUE).value_json, <<>>)>>

\* the updated_at of a current row: that of the newest version row of its
\* key, both written by the same upsert
UpdatedAt(d, key) ==
    CHOOSE i \in RowsOfKey(d, key) : \A j \in RowsOfKey(d, key) : i >= j

RoleItem(r) ==
    [ memory_key |-> r.key[2],
      value |-> json_loads(r.value_json, r.value_json),
      version |-> r.version,
      updated_by_client |-> r.updated_by_client ]

\* ORDER BY updated_at DESC LIMIT ? over rows of role_state_current
RECURSIVE NewestFirst(_, _, _)
NewestFirst(d, rows, limit) ==
    IF rows = {} \/ limit <= 0 THEN <<>>
    ELSE LET r == CHOOSE x \in rows :
                    \A y \in rows : UpdatedAt(d, x.key) >= UpdatedAt(d, y.key)
         IN  <<RoleItem(r)>> \o NewestFirst(d, rows \ {r}, limit - 1)

\* a variant ordering ascending: the rows updated longest ago
RECURSIVE OldestFirst(_, _, _)
OldestFirst(d, rows, limit) ==
    IF rows = {} \/ limit <= 0 THEN <<>>
    ELSE LET r == CHOOSE x \in rows :
                    \A y \in rows : UpdatedAt(d, x.key) <= UpdatedAt(d, y.key)
         IN  <<RoleItem(r)>> \o OldestFirst(d, rows \ {r}, limit - 1)

fetch_role_payloads_oldest(d, roles) ==
    [ i \in 1..Len(roles) |->
        [ role |-> roles[i],
          items |-> OldestFirst(d, { r \in d.current : r.key[1] = roles[i] },
                                PER_ROLE_LIMIT) ] ]

\* fetch_role_payloads: per role, the rows updated last, newest first
fetch_role_payloads(d, roles) ==
    [ i \in 1..Len(roles) |->
        [ role |-> roles[i],
          items |-> NewestFirst(d, { r \in d.current : r.key[1] = roles[i] },
                                PER_ROLE_LIMIT) ] ]

\* fetch_open_loops_top: the first open loops (one priority)
RECURSIVE OpenLoopsFrom(_, _, _)
OpenLoopsFrom(d, i, limit) ==
    IF i > Len(d.loops) \/ limit <= 0 THEN <<>>
    ELSE IF d.loops[i].status = "open"
    THEN <<d.loops[i]>> \o OpenLoopsFrom(d, i + 1, limit - 1)
    ELSE OpenLoopsFrom(d, i + 1, limit)

fetch_open_loops_top(d, limit) == OpenLoopsFrom(d, 1, limit)

\* a variant that does not look at the TTL
fetch_latest_handoff_any(d, t) ==
    IF d.handoffs = <<>> THEN <<>> ELSE <<Last(d.handoffs)>>

\* fetch_latest_handoff: the newest packet with ttl_expires_at > now, or
\* none
fetch_latest_handoff(d, t) ==
    LET live == { i \in 1..Len(d.handoffs) : d.handoffs[i].ttl_expires_at > t }
    IN  IF live = {} THEN <<>>
        ELSE <<d.handoffs[CHOOSE i \in live : \A j \in live : i >= j]>>

\* roles_for_task, for the resolved task types in use
roles_for_task(task_type) ==
    IF task_type = "implement" THEN <<"architect", "dev">>
    ELSE IF task_type \in {"test", "review"} THEN <<"qa", "dev", "architect">>
    ELSE IF task_type = "design" THEN <<"architect", "pm">>
    ELSE <<"pm", "architect">>

\* detect_conflicts: the loop over the deltas with its seen set
RECURSIVE ConflictLoop(_, _, _, _)
ConflictLoop(d, base_version, deltas, seen) ==
    IF deltas = <<>> THEN <<>>
    ELSE LET key == Head(deltas).key
             rows == { i \in RowsOfKey(d, key) :
                         d.versions[i].memory_version > base_version }
             rest == ConflictLoop(d, base_version, Tail(deltas), seen \cup {key})
         IN  IF key \in seen \/ rows = {} THEN rest
             ELSE LET row == d.versions[NewestRow(d, rows)]
                  IN  << [ key |-> key,
                           base_version |-> base_version,
                           current_version |-> row.memory_version,
                           theirs |-> json_loads(row.value_json, row.value_json),
                           updated_by_client |-> row.created_by_client,
                           version_id |-> row.version_id ] >> \o rest

\* a variant with the version comparison inverted
detect_conflicts_inverted(d, base_version, role_deltas) ==
    IF base_version = NoStamp THEN <<>>
    ELSE IF base_version <= get_memory_version(d) THEN <<>>
    ELSE ConflictLoop(d, base_version, role_deltas, {})

\* a variant without the test for None: a null stamp is an old base
detect_conflicts_unforced(d, base_version, role_deltas) ==
    IF base_version >= get_memory_version(d) THEN <<>>
    ELSE ConflictLoop(d, base_version, role_deltas, {})

detect_conflicts(d, base_version, role_deltas) ==
    IF base_version = NoStamp THEN <<>>
    ELSE IF base_version >= get_memory_version(d) THEN <<>>
    ELSE ConflictLoop(d, base_version, role_deltas, {})

insert_sync_audit(d, sync_id, direction, client_id, error_code) ==
    [d EXCEPT !.audit = Append(@,
        [ sync_id |-> sync_id, direction |-> direction,
          client_id |-> client_id, error_code |-> error_code ])]

\* a variant stamping the packet with the version before the push
insert_handoff_packet_stale(d, session_summary, client_id, memory_version, t) ==
    [d EXCEPT !.handoffs = Append(@,
        [ summary |-> session_summary,
          created_by_client |-> client_id,
          memory_version |-> memory_version - 1,
          ttl_expires_at |-> t + DEFAULT_HANDOFF_TTL_HOURS * 3600 ])]

insert_handoff_packet(d, session_summary, client_id, memory_version, t) ==
    [d EXCEPT !.handoffs = Append(@,
        [ summary |-> session_summary,
          created_by_client |-> client_id,
          memory_version |-> memory_version,
          ttl_expires_at |-> t + DEFAULT_HANDOFF_TTL_HOURS * 3600 ])]

enqueue_catalog_job(d, payload, max_attempts, t) ==
    [d EXCEPT !.jobs = Append(@,
        [ job_id |-> Len(d.jobs) + 1,
          job_type |-> "incremental_refresh",
          payload |-> payload,
          status |-> "pending",
          attempts |-> 0,
          max_attempts |-> max_attempts,
          next_retry_at |-> t,
          lease_expires_at |-> NullTime,
          created_at |-> t ])]

insert_consistency_link(d, sync_id, memory_version, catalog_version, status) ==
    [d EXCEPT !.links = Append(@,
        [ sync_id |-> sync_id,
          memory_version |-> memory_version,
          catalog_version |-> catalog_version,
          consistency_status |-> status ])]

UnknownCatalog == "sha256:unknown"

get_catalog_meta(d) == d.catalog

catalog_version_of(d) ==
    IF get_catalog_meta(d) = <<>> THEN UnknownCatalog
    ELSE get_catalog_meta(d)[1].catalog_version

fetch_latest_consistency(d) ==
    IF d.links = <<>>
    THEN [ memory_version |-> get_memory_version(d),
           catalog_version |-> catalog_version_of(d),
           consistency_status |-> "unknown" ]
    ELSE [ memory_version |-> Last(d.links).memory_version,
           catalog_version |-> Last(d.links).catalog_version,
           consistency_status |-> Last(d.links).consistency_status ]

\* ------------------------------------------------------------ open loops
\* open_loops_new items are [title, loop_id] (loop_id 0: none given);
\* open_loops_closed items are [loop_id, title] with one of them set
RECURSIVE insert_open_loops(_, _)
insert_open_loops(d, open_loops_new) ==
    IF open_loops_new = <<>> THEN [db |-> d, inserted |-> <<>>]
    ELSE LET item == Head(open_loops_new)
             loop_id == IF item.loop_id # 0 THEN item.loop_id
                        ELSE 100 + Len(d.loops)
             d1 == IF item.title = "" THEN d
                   ELSE [d EXCEPT !.loops = Append(@,
                            [ loop_id |-> loop_id, title |-> item.title,
                              status |-> "open" ])]
             rest == insert_open_loops(d1, Tail(open_loops_new))
         IN  [ db |-> rest.db,
               inserted |-> IF item.title = "" THEN rest.inserted
                            ELSE <<loop_id>> \o rest.inserted ]

\* a variant that closes one of the matching loops only
CloseWhereFirst(d, pos) ==
    [d EXCEPT !.loops =
        [ i \in 1..Len(@) |->
            IF i \in pos /\ \A j \in pos : i <= j
            THEN [@[i] EXCEPT !.status = "closed"] ELSE @[i] ]]

CloseWhere(d, pos) ==
    [d EXCEPT !.loops =
        [ i \in 1..Len(@) |->
            IF i \in pos THEN [@[i] EXCEPT !.status = "closed"] ELSE @[i] ]]

RECURSIVE IdsAt(_, _, _)
IdsAt(d, pos, i) ==
    IF i > Len(d.loops) THEN <<>>
    ELSE (IF i \in pos THEN <<d.loops[i].loop_id>> ELSE <<>>) \o IdsAt(d, pos, i + 1)

RECURSIVE close_open_loops(_, _)
close_open_loops(d, open_loops_closed) ==
    IF open_loops_closed = <<>> THEN [db |-> d, closed |-> <<>>]
    ELSE LET item == Head(open_loops_closed)
             byId == { i \in 1..Len(d.loops) :
                         d.loops[i].loop_id = item.loop_id /\ d.loops[i].status = "open" }
             byTitle == { i \in 1..Len(d.loops) :
                         d.loops[i].title = item.title /\ d.loops[i].status = "open" }
             pos == IF item.loop_id # 0 THEN byId
                    ELSE IF item.title # "" THEN byTitle ELSE {}
             rest == close_open_loops(CloseWhere(d, pos), Tail(open_loops_closed))
         IN  [ db |-> rest.db,
               closed |-> (IF item.loop_id # 0
                           THEN (IF byId # {} THEN <<item.loop_id>> ELSE <<>>)
                           ELSE IdsAt(d, pos, 1)) \o rest.closed ]

\* ------------------------------------------------------- the catalog jobs
\* a variant that takes a running job whatever its lease
ClaimableAnyLease(job, t) ==
    \/ /\ job.status = "pending"
       /\ (job.next_retry_at = NullTime \/ job.next_retry_at <= t)
    \/ job.status = "running"

\* a variant that never takes a running job
ClaimablePendingOnly(job, t) ==
    /\ job.status = "pending"
    /\ (job.next_retry_at = NullTime \/ job.next_retry_at <= t)

Claimable(job, t) ==
    \/ /\ job.status = "pending"
       /\ (job.next_retry_at = NullTime \/ job.next_retry_at <= t)
    \/ /\ job.status = "running"
       /\ job.lease_expires_at # NullTime
       /\ job.lease_expires_at <= t
    \/ /\ job.status = "running"
       /\ job.lease_expires_at = NullTime

\* COALESCE(next_retry_at, created_at)
RetryKey(job) ==
    IF job.next_retry_at = NullTime THEN job.created_at ELSE job.next_retry_at

\* ORDER BY COALESCE(next_retry_at, created_at) ASC, created_at ASC LIMIT 1:
\* the position of the candidate row, 0 when no row is claimable
SelectCandidate(d, t) ==
    LET cand == { i \in 1..Len(d.jobs) : Claimable(d.jobs[i], t) }
    IN  IF cand = {} THEN 0
        ELSE CHOOSE i \in cand :
                \A j \in cand :
                    \/ RetryKey(d.jobs[i]) < RetryKey(d.jobs[j])
                    \/ /\ RetryKey(d.jobs[i]) = RetryKey(d.jobs[j])
                       /\ \/ d.jobs[i].created_at < d.jobs[j].created_at
                          \/ /\ d.jobs[i].created_at = d.jobs[j].created_at
                             /\ i <= j

\* the conditional UPDATE of a claim: the row must still be in the observed
\* status and still satisfy that status's retry / lease condition
ClaimUpdateApplies(job, old_status, t) ==
    /\ job.status = old_status
    /\ Claimable(job, t)

\* claim_next_catalog_job: [db, job]; job 0 when nothing was claimed
RECURSIVE ClaimLoop(_, _, _, _)
ClaimLoop(d, t, lease_seconds, tries) ==
    IF tries = 0 THEN [db |-> d, job |-> 0]
    ELSE LET i == SelectCandidate(d, t)
         IN  IF i = 0 THEN [db |-> d, job |-> 0]
             ELSE IF ~ClaimUpdateApplies(d.jobs[i], d.jobs[i].status, t)
                  THEN ClaimLoop(d, t, lease_seconds, tries - 1)
                  ELSE [ db |-> [d EXCEPT !.jobs[i] =
                                    [@ EXCEPT !.status = "running",
                                              !.attempts = @ + 1,
                                              !.next_retry_at = NullTime,
                                              !.lease_expires_at =
                                                  t + Max(lease_seconds, 0)]],
                         job |-> i ]

\* a variant that hands out the job without a lease
claim_next_catalog_job_unleased(d, t, lease_seconds) ==
    ClaimLoop(d, t, 0, CLAIM_RETRIES)

claim_next_catalog_job(d, t, lease_seconds) ==
    ClaimLoop(d, t, lease_seconds, CLAIM_RETRIES)

mark_catalog_job_done(d, job_id) ==
    [d EXCEPT !.jobs[job_id] =
        [@ EXCEPT !.status = "done",
                  !.next_retry_at = NullTime,
                  !.lease_expires_at = NullTime]]

\* a variant that retries at once and keeps the lease
mark_catalog_job_failed_eager(d, job_id, t) ==
    [d EXCEPT !.jobs[job_id] =
        [@ EXCEPT !.status = IF d.jobs[job_id].attempts >= d.jobs[job_id].max_attempts
                             THEN "failed" ELSE "pending",
                  !.next_retry_at = IF d.jobs[job_id].attempts >= d.jobs[job_id].max_attempts
                                    THEN NullTime ELSE t]]

mark_catalog_job_failed(d, job_id, t) ==
    LET attempts == d.jobs[job_id].attempts
        status == IF attempts >= d.jobs[job_id].max_attempts
                  THEN "failed" ELSE "pending"
        retry_delay_seconds == Min(MAX_RETRY_DELAY, Pow2(Max(attempts, 0)))
    IN  [d EXCEPT !.jobs[job_id] =
            [@ EXCEPT !.status = status,
                      !.next_retry_at = IF status = "failed" THEN NullTime
                                        ELSE t + Max(retry_delay_seconds, 0),
                      !.lease_expires_at = NullTime]]

count_pending_catalog_jobs(d) ==
    Cardinality({ i \in 1..Len(d.jobs) :
                    d.jobs[i].status \in {"pending", "running"} })

\* _catalog_version_from_snapshot: a digest of the files
catalog_version_from_snapshot(files) ==
    IF files = <<>> THEN "sha256:empty"
    ELSE IF files = <<"f1">> THEN "sha256:f1"
    ELSE "sha256:other"

\* replace_catalog_snapshot: the catalog tables and catalog_meta become the
\* snapshot's
replace_catalog_snapshot(d, snapshot, t) ==
    [d EXCEPT !.catalog =
        << [ catalog_version |-> catalog_version_from_snapshot(snapshot.files),
             source_root |-> snapshot.workspace_root,
             files |-> snapshot.files,
             indexed_files |-> Len(snapshot.files),
             last_indexed_at |-> t ] >>]

\* build_catalog_snapshot: the files found under the workspace root
build_catalog_snapshot(workspace_root) ==
    [workspace_root |-> workspace_root, files |-> <<"f1">>]

\* ----------------------------------------------------------- push inputs
DecisionTitles == {"T"}

\* _slug over the titles in use: lower-cased, non-alphanumerics dashed
slug(title) == IF title = "T" THEN "t" ELSE "decision"

\* "decision::" + slug + "::" + index
DecisionKeyName(s, index) ==
    IF s = "t" /\ index = 0 THEN "decision::t::0"
    ELSE IF s = "t" THEN "decision::t::1"
    ELSE "decision::decision::0"

RECURSIVE FoldDecisions(_, _)
FoldDecisions(decisions_delta, index) ==
    IF decisions_delta = <<>> THEN <<>>
    ELSE LET item == Head(decisions_delta)
             key == IF item.decision_id # "" THEN item.decision_id
                    ELSE DecisionKeyName(slug(item.title), index)
             rest == FoldDecisions(Tail(decisions_delta), index + 1)
         IN  IF item.title = "" THEN rest
             ELSE << [ key |-> <<"architect", key>>,
                       value |-> <<"decision", item.title>> ] >> \o rest

\* _normalize_role_deltas: the role deltas, then one architect delta per
\* decision
normalize_role_deltas(args) ==
    args.role_deltas \o FoldDecisions(args.decisions_delta, 0)

\* the payloads pushed: a delta for K1; a delta and a decision folded onto
\* K1, the decision last; a decision with a generated key; a loop opened
\* and nothing else; a delta for K2 closing the loop by title
Delta(k, v) == [key |-> k, value |-> <<v>>]
Decision(id) == [decision_id |-> id, title |-> "T"]
NoLoops == [new |-> <<>>, closed |-> <<>>]
Payload(rd, dd, loops) ==
    [role_deltas |-> rd, decisions_delta |-> dd, loops |-> loops]

PayloadK1 == Payload(<<Delta(K1, "a")>>, <<>>, NoLoops)
PayloadFold == Payload(<<Delta(K1, "b")>>, <<Decision("k1")>>, NoLoops)
PayloadDecision == Payload(<<>>, <<Decision("")>>, NoLoops)
PayloadOpen ==
    Payload(<<>>, <<>>,
            [new |-> <<[title |-> "L", loop_id |-> 0]>>, closed |-> <<>>])
PayloadClose ==
    Payload(<<Delta(K2, "a")>>, <<>>,
            [new |-> <<>>, closed |-> <<[loop_id |-> 0, title |-> "L"]>>])

Payloads == {PayloadK1, PayloadFold, PayloadDecision, PayloadOpen, PayloadClose}

\* one delta more for the role pm than a pull returns per role
WideKeys == <<"g1", "g2", "g3", "g4", "g5", "g6", "g7", "g8", "g9">>
PayloadWide ==
    Payload([i \in 1..(PER_ROLE_LIMIT + 1) |-> Delta(<<"pm", WideKeys[i]>>, "a")],
            <<>>, NoLoops)

\* ------------------------------------------------------ context stamps
\* a context_stamp as the client sends it: null, an object with
\* memory_version, a string (a sequence of characters), or anything else
NullStamp == [kind |-> "null", memory_version |-> 0, text |-> <<>>]
DictStamp(n) == [kind |-> "dict", memory_version |-> n, text |-> <<>>]
StrStamp(text) == [kind |-> "str", memory_version |-> 0, text |-> text]
OtherStamp == [kind |-> "number", memory_version |-> 0, text |-> <<>>]

DigitChars == <<"0", "1", "2", "3", "4", "5", "6", "7", "8", "9">>

\* str(n) for n >= 0
RECURSIVE Decimal(_)
Decimal(n) ==
    IF n < 10 THEN <<DigitChars[n + 1]>>
    ELSE Decimal(n \div 10) \o <<DigitChars[(n % 10) + 1]>>

\* the legacy form "v<N>"
LegacyStamp(n) == StrStamp(<<"v">> \o Decimal(n))

\* str.strip and str.lower over the characters in use
RECURSIVE LStrip(_)
LStrip(text) ==
    IF text # <<>> /\ Head(text) = " " THEN LStrip(Tail(text)) ELSE text

RECURSIVE RStrip(_)
RStrip(text) ==
    IF text # <<>> /\ Last(text) = " "
    THEN RStrip(SubSeq(text, 1, Len(text) - 1)) ELSE text

Strip(text) == RStrip(LStrip(text))

Lower(text) ==
    [i \in 1..Len(text) |->
        IF text[i] = "V" THEN "v"
        ELSE IF text[i] = "P" THEN "p"
        ELSE IF text[i] = "M" THEN "m"
        ELSE text[i]]

IsDigit(ch) == \E i \in 1..10 : DigitChars[i] = ch

DigitValue(ch) == (CHOOSE i \in 1..10 : DigitChars[i] = ch) - 1

RECURSIVE DigitsValue(_, _)
DigitsValue(text, acc) ==
    IF text = <<>> THEN acc
    ELSE DigitsValue(Tail(text), acc * 10 + DigitValue(Head(text)))

\* int(text): blanks around, a sign, decimal digits; ValueError otherwise
ParseInt(text) ==
    LET t == Strip(text)
        signed == t # <<>> /\ Head(t) \in {"-", "+"}
        digits == IF signed THEN Tail(t) ELSE t
    IN  IF digits = <<>> \/ \E i \in 1..Len(digits) : ~IsDigit(digits[i])
        THEN [error |-> "ValueError", value |-> 0]
        ELSE [error |-> "",
              value |-> IF signed /\ Head(t) = "-"
                        THEN 0 - DigitsValue(digits, 0)
                        ELSE DigitsValue(digits, 0)]

\* _validate_context_stamp: the error it raises, "" for none
validate_context_stamp(value) ==
    IF value.kind \in {"null", "str"} THEN ""
    ELSE IF value.kind # "dict" THEN "INVALID_CONTEXT_STAMP"
    ELSE IF value.memory_version < 0 THEN "INVALID_CONTEXT_STAMP"
    ELSE ""

\* a variant whose legacy form counts from 1: v<N> read as N - 1
parse_context_stamp_from_one(context_stamp) ==
    IF context_stamp.kind = "null" THEN [error |-> "", value |-> NoStamp]
    ELSE IF context_stamp.kind = "dict"
    THEN IF context_stamp.memory_version < 0
         THEN [error |-> "INVALID_CONTEXT_STAMP", value |-> NoStamp]
         ELSE [error |-> "", value |-> context_stamp.memory_version]
    ELSE IF context_stamp.kind = "str"
    THEN LET stamp == Lower(Strip(context_stamp.text))
         IN  IF stamp # <<>> /\ Head(stamp) = "v"
             THEN IF ParseInt(Tail(stamp)).error # ""
                     \/ ParseInt(Tail(stamp)).value - 1 < 0
                  THEN [error |-> "INVALID_CONTEXT_STAMP", value |-> NoStamp]
                  ELSE [error |-> "", value |-> ParseInt(Tail(stamp)).value - 1]
             ELSE [error |-> "INVALID_CONTEXT_STAMP", value |-> NoStamp]
    ELSE [error |-> "INVALID_CONTEXT_STAMP", value |-> NoStamp]

\* parse_context_stamp: the base version, NoStamp for None, or the error
parse_context_stamp(context_stamp) ==
    IF context_stamp.kind = "null" THEN [error |-> "", value |-> NoStamp]
    ELSE IF context_stamp.kind = "dict"
    THEN IF context_stamp.memory_version < 0
         THEN [error |-> "INVALID_CONTEXT_STAMP", value |-> NoStamp]
         ELSE [error |-> "", value |-> context_stamp.memory_version]
    ELSE IF context_stamp.kind = "str"
    THEN LET stamp == Lower(Strip(context_stamp.text))
         IN  IF stamp # <<>> /\ Head(stamp) = "v"
             THEN IF ParseInt(Tail(stamp)).error # ""
                     \/ ParseInt(Tail(stamp)).value < 0
                  THEN [error |-> "INVALID_CONTEXT_STAMP", value |-> NoStamp]
                  ELSE [error |-> "", value |-> ParseInt(Tail(stamp)).value]
             ELSE [error |-> "INVALID_CONTEXT_STAMP", value |-> NoStamp]
    ELSE [error |-> "INVALID_CONTEXT_STAMP", value |-> NoStamp]

\* a stamp the store has not reached yet is among them
Stamps == {NullStamp} \cup { DictStamp(n) : n \in 0..MaxStamp }

\* the arguments of a call, the context_stamp as sent
MakeArgs(workspace, stamp, payload) ==
    [ workspace |-> workspace, context_stamp |-> stamp,
      role_deltas |-> payload.role_deltas,
      decisions_delta |-> payload.decisions_delta,
      loops |-> payload.loops, session_summary |-> "s", stamp_kind |-> "",
      task_type |-> "" ]

\* the pushes of the sync specification: one workspace, every stamp
SyncArgs == { MakeArgs("wsA", st, pl) : st \in Stamps, pl \in Payloads }

\* the resolve_conflict calls: the stamp is not read
ResolveArgs ==
    { MakeArgs("wsA", NullStamp, pl) : pl \in {PayloadK1, PayloadOpen, PayloadClose} }

NoArgs ==
    [ workspace |-> NoWs, context_stamp |-> NoStamp, role_deltas |-> <<>>,
      decisions_delta |-> <<>>, loops |-> [new |-> <<>>, closed |-> <<>>],
      session_summary |-> "", stamp_kind |-> "", task_type |-> "" ]

\* ------------------------------------------------- the push transaction
\* session_sync_push after the conflict check: every write of a push that
\* goes through, in the order of the code
PushWrites(d, client_id, args, role_deltas, sync_id, t) ==
    LET new_version == get_memory_version(d) + 1
        d1 == bump_memory_version(d)
        d2 == UpsertAll(d1, role_deltas, client_id, new_version)
        ins == insert_open_loops(d2, args.loops.new)
        cls == close_open_loops(ins.db, args.loops.closed)
        d3 == insert_handoff_packet(cls.db, args.session_summary, client_id,
                                    new_version, t)
        d4 == enqueue_catalog_job(d3,
                 [ memory_version |-> new_version, sync_id |-> sync_id,
                   reason |-> "push" ],
                 DEFAULT_MAX_ATTEMPTS, t)
        d5 == insert_consistency_link(d4, sync_id, new_version,
                                      catalog_version_of(d4), "degraded")
    IN  insert_sync_audit(d5, sync_id, "push", client_id, "")

NoStats == [processed |-> 0, succeeded |-> 0, failed |-> 0, lock_failures |-> 0]

\* what a call returns; status "error" carries the error raised
NoRet ==
    [ status |-> "", memory_version |-> 0, conflicts |-> <<>>, error |-> "",
      sync_id |-> <<"", 0>>, consistency |-> "", applied |-> "",
      stats |-> NoStats, brief |-> <<>>, role_payloads |-> <<>>,
      handoff_latest |-> <<>>, strategy |-> "" ]

\* the response of a push that went through
PushOk(d, sync_id) ==
    [NoRet EXCEPT !.status = "ok",
                  !.memory_version = get_memory_version(d) + 1,
                  !.sync_id = sync_id, !.consistency = "degraded",
                  !.applied = "write"]

\* a variant of the conflict branch that bumps the version first
PushConflictWritesBump(d, client_id, sync_id) ==
    insert_sync_audit(bump_memory_version(d), sync_id, "push", client_id,
                      "CONFLICT_DETECTED")

\* the conflict branch: the audit row is the only write
PushConflictWrites(d, client_id, sync_id) ==
    insert_sync_audit(d, sync_id, "push", client_id, "CONFLICT_DETECTED")

PushNeedsResolution(d, conflicts, sync_id) ==
    [NoRet EXCEPT !.status = "needs_resolution",
                  !.memory_version = get_memory_version(d),
                  !.conflicts = conflicts, !.sync_id = sync_id,
                  !.consistency = fetch_latest_consistency(d).consistency_status]

Raised(error_code) == [NoRet EXCEPT !.status = "error", !.error = error_code]

\* ------------------------------------------------------------- the state
VARIABLES
    db,     \* the committed store
    wlock,  \* the connection holding SQLite's write lock, or NoProc
    proc,   \* each client's and each worker's call in progress
    now,    \* the clock, in seconds
    hist,   \* history: what the calls so far have returned
    cache   \* the brief cache of the process, least recently used first

vars == <<db, wlock, proc, now, hist, cache>>

IdleProc ==
    [ pc |-> "idle", op |-> "", calls |-> 0, args |-> NoArgs, deltas |-> <<>>,
      snap |-> <<>>, work |-> <<>>, ret |-> NoRet,
      job |-> 0, lease |-> NullTime, limit |-> 0, stats |-> NoStats,
      seen |-> {} ]

\* okPushes: how many pushes have returned ok; okVersions: the
\* memory_version each of them returned; okBases: <<base, key>> of the ok
\* pushes that carried a context_stamp base no newer than the store;
\* okWorkspaces: the workspaces the ok pushes came from; lapsed: the jobs
\* whose lease ran out while they were running; lastPush: the version
\* returned by the latest ok push and the deltas it carried; sent: the
\* arguments of the latest call made in the client's own form, if any;
\* request: each client's latest tools/call request, if any; migrated:
\* the opens begun, the heals and the migrations applied, in order;
\* accessed: when each cache key was last written or read with a hit;
\* freshKeys: the cache keys of the briefs requested while the catalog
\* was fresh
NoHist ==
    [ okPushes |-> 0, okVersions |-> {}, okBases |-> {}, okWorkspaces |-> {},
      lapsed |-> {},
      lastPush |-> [memory_version |-> 0, deltas |-> <<>>, summary |-> ""],
      sent |-> <<>>, request |-> [c \in Clients |-> <<>>],
      migrated |-> <<>>, accessed |-> <<>>, freshKeys |-> {} ]

SyncId(p) == <<p, proc[p].calls>>

\* a variant that does not look at the snapshot
CanUpgradeAnySnapshot(p) == wlock = NoProc

\* a statement that writes, issued by a transaction that has already read:
\* it goes through only with the write lock free and the snapshot current
CanUpgrade(p) == wlock = NoProc /\ proc[p].snap = <<db>>

\* a statement that writes and starts the transaction waits for the lock
LockFree(p) == wlock = NoProc
LockTimeout(p) == wlock # NoProc /\ wlock # p

Finish(p, ret) ==
    [proc EXCEPT ![p] = [IdleProc EXCEPT !.calls = proc[p].calls, !.ret = ret]]

\* the response of the push as the call hands it on: keep_mine and
\* merge_note add their strategy
Respond(p, ret) ==
    IF proc[p].op \in {"keep_mine", "merge_note"}
    THEN [ret EXCEPT !.strategy = proc[p].op] ELSE ret

\* resolve_project_workspace, its SELECT: where the call goes next
AfterWorkspaceRead(d, workspace, next) ==
    IF d.workspace_root = NoWs THEN "bind"
    ELSE IF d.workspace_root # workspace THEN "mismatch"
    ELSE next

\* resolve_project_workspace, first use: UPDATE project_meta, commit
BindWorkspace(d, workspace) == [d EXCEPT !.workspace_root = workspace]

\* the <<base, key>> pairs of a push whose base is a version the store has
\* reached
HeldBases(d, base_version, deltas) ==
    IF base_version = NoStamp \/ base_version > get_memory_version(d) THEN {}
    ELSE { <<base_version, deltas[i].key>> : i \in 1..Len(deltas) }

TotalCalls == proc["c1"].calls + proc["c2"].calls

\* --------------------------------------------------------------- push
\* session_sync_push up to the workspace check
StartPush(c, op, sent) ==
    LET invalid == validate_context_stamp(sent.context_stamp)
        base_version == parse_context_stamp(sent.context_stamp)
        args == [sent EXCEPT !.context_stamp = base_version.value,
                             !.stamp_kind = sent.context_stamp.kind]
        to == AfterWorkspaceRead(db, args.workspace, "begin")
        p1 == [proc[c] EXCEPT
                  !.op = op, !.calls = @ + 1, !.args = args,
                  !.deltas = normalize_role_deltas(args),
                  !.snap = <<>>, !.work = <<>>,
                  !.seen = hist.okWorkspaces,
                  !.ret = NoRet, !.pc = to]
    IN  IF invalid # "" \/ base_version.error # ""
        THEN [proc EXCEPT ![c] =
                [IdleProc EXCEPT !.calls = proc[c].calls + 1,
                                 !.ret = Raised("INVALID_CONTEXT_STAMP")]]
        ELSE IF to = "mismatch"
        THEN [proc EXCEPT ![c] =
                [IdleProc EXCEPT !.calls = proc[c].calls + 1,
                                 !.ret = Raised("WORKSPACE_MISMATCH")]]
        ELSE [proc EXCEPT ![c] = p1]

PushCall(c, inputs) ==
    /\ proc[c].pc = "idle"
    /\ TotalCalls < MaxCalls
    /\ \E args \in inputs : proc' = StartPush(c, "push", args)
    /\ UNCHANGED <<db, wlock, now, hist, cache>>

PushBind(c) ==
    /\ proc[c].pc = "bind"
    /\ \/ /\ LockFree(c)
          /\ db' = BindWorkspace(db, proc[c].args.workspace)
          /\ proc' = [proc EXCEPT ![c].pc = "begin"]
       \/ /\ LockTimeout(c)
          /\ proc' = Finish(c, Raised("database is locked"))
          /\ UNCHANGED db
    /\ UNCHANGED <<wlock, now, hist, cache>>

\* BEGIN, get_memory_version, fetch_latest_consistency, detect_conflicts
PushBegin(c) ==
    /\ proc[c].pc = "begin"
    /\ LET conflicts == detect_conflicts(db, proc[c].args.context_stamp,
                                         proc[c].deltas)
       IN  proc' = [proc EXCEPT
                ![c].snap = <<db>>,
                ![c].ret = [NoRet EXCEPT !.conflicts = conflicts],
                ![c].pc = IF conflicts # <<>> THEN "conflict" ELSE "write"]
    /\ UNCHANGED <<db, wlock, now, hist, cache>>

\* the conflict branch: audit, commit, return needs_resolution
PushConflict(c) ==
    /\ proc[c].pc = "conflict"
    /\ IF CanUpgrade(c)
       THEN /\ db' = PushConflictWrites(db, c, SyncId(c))
            /\ proc' = Finish(c, Respond(c,
                            PushNeedsResolution(db, proc[c].ret.conflicts,
                                                SyncId(c))))
       ELSE /\ proc' = Finish(c, Raised("database is locked"))
            /\ UNCHANGED db
    /\ UNCHANGED <<wlock, now, hist, cache>>

\* bump_memory_version and every write after it, inside the transaction
PushWrite(c) ==
    /\ proc[c].pc = "write"
    /\ IF CanUpgrade(c)
       THEN /\ wlock' = c
            /\ proc' = [proc EXCEPT
                  ![c].work = <<PushWrites(proc[c].snap[1], c, proc[c].args,
                                          proc[c].deltas, SyncId(c), now)>>,
                  ![c].pc = "commit"]
       ELSE /\ proc' = Finish(c, Raised("database is locked"))
            /\ UNCHANGED wlock
    /\ UNCHANGED <<db, now, hist, cache>>

\* commit: the response carries the version the transaction computed
PushCommit(c) ==
    /\ proc[c].pc = "commit"
    /\ db' = proc[c].work[1]
    /\ wlock' = NoProc
    /\ proc' = Finish(c, Respond(c, PushOk(proc[c].snap[1], SyncId(c))))
    /\ hist' = [hist EXCEPT
          !.okPushes = @ + 1,
          !.okVersions = @ \cup {PushOk(proc[c].snap[1], SyncId(c)).memory_version},
          !.okBases = @ \cup HeldBases(proc[c].snap[1], proc[c].args.context_stamp,
                                       proc[c].deltas),
          !.okWorkspaces = @ \cup {proc[c].args.workspace},
          !.lastPush = [memory_version |->
                            PushOk(proc[c].snap[1], SyncId(c)).memory_version,
                        deltas |-> proc[c].deltas,
                        summary |-> proc[c].args.session_summary]]
    /\ UNCHANGED <<now, cache>>

\* an exception inside the transaction: rollback, raise
PushAbort(c) ==
    /\ proc[c].pc = "commit"
    /\ wlock' = NoProc
    /\ proc' = Finish(c, Raised("exception"))
    /\ UNCHANGED <<db, now, hist, cache>>

\* ------------------------------------------------------ resolve_conflict
Strategies == {"accept_theirs", "keep_mine", "merge_note"}

\* merge_note: each delta's value becomes {mine, theirs}, theirs being the
\* current value of the key, null when there is none
RECURSIVE MergeDeltas(_, _)
MergeDeltas(d, role_deltas) ==
    IF role_deltas = <<>> THEN <<>>
    ELSE LET delta == Head(role_deltas)
             theirs == fetch_current_value(d, delta.key)
             merged == <<"merge_note">> \o delta.value
                       \o (IF theirs = <<>> THEN JsonNull ELSE theirs[1])
         IN  <<[key |-> delta.key, value |-> merged]>>
             \o MergeDeltas(d, Tail(role_deltas))

AcceptTheirs(d, sync_id) ==
    [NoRet EXCEPT !.status = "ok",
                  !.memory_version = fetch_latest_consistency(d).memory_version,
                  !.sync_id = sync_id,
                  !.consistency = fetch_latest_consistency(d).consistency_status,
                  !.applied = "no_write", !.strategy = "accept_theirs"]

\* session_sync_resolve_conflict up to its first write: accept_theirs reads
\* the latest consistency, keep_mine pushes with the stamp removed,
\* merge_note reads the current values and pushes the merged deltas with
\* the stamp removed
ResolveCall(c, inputs) ==
    /\ proc[c].pc = "idle"
    /\ TotalCalls < MaxCalls
    /\ \E strategy \in Strategies, args \in inputs :
        LET forced == [args EXCEPT !.context_stamp = NullStamp]
            merged == [forced EXCEPT !.role_deltas = MergeDeltas(db, args.role_deltas)]
        IN  proc' =
                IF args.role_deltas = <<>>
                THEN [proc EXCEPT ![c] =
                        [IdleProc EXCEPT !.calls = proc[c].calls + 1,
                                         !.ret = Raised("MISSING_REQUIRED_FIELDS")]]
                ELSE IF strategy = "accept_theirs"
                THEN [proc EXCEPT ![c] =
                        [IdleProc EXCEPT
                            !.calls = proc[c].calls + 1,
                            !.op = strategy, !.pc = "accept",
                            !.ret = AcceptTheirs(db, <<c, proc[c].calls + 1>>)]]
                ELSE IF strategy = "keep_mine"
                THEN StartPush(c, strategy, forced)
                ELSE StartPush(c, strategy, merged)
    /\ UNCHANGED <<db, wlock, now, hist, cache>>

\* accept_theirs: the audit row, commit
ResolveAccept(c) ==
    /\ proc[c].pc = "accept"
    /\ \/ /\ LockFree(c)
          /\ db' = insert_sync_audit(db, SyncId(c), "resolve_conflict", c, "")
          /\ proc' = Finish(c, proc[c].ret)
       \/ /\ LockTimeout(c)
          /\ proc' = Finish(c, Raised("database is locked"))
          /\ UNCHANGED db
    /\ UNCHANGED <<wlock, now, hist, cache>>

\* ------------------------------------------------- process_catalog_jobs
\* the loop head: back to BEGIN IMMEDIATE while processed < limit, and the
\* return of the stats otherwise
WorkerReturn(p, stats) ==
    IF proc[p].op = "pull"
    THEN [proc EXCEPT ![p].pc = "p_health2", ![p].stats = stats,
                      ![p].job = 0, ![p].lease = NullTime,
                      ![p].snap = <<>>, ![p].work = <<>>]
    ELSE [proc EXCEPT ![p] =
            [IdleProc EXCEPT !.calls = proc[p].calls, !.limit = proc[p].limit,
                             !.ret = [NoRet EXCEPT !.status = "ok",
                                                   !.stats = stats]]]

WorkerLoop(p, stats) ==
    IF stats.processed < proc[p].limit
    THEN [proc EXCEPT ![p].pc = "w_begin", ![p].stats = stats,
                      ![p].job = 0, ![p].lease = NullTime,
                      ![p].snap = <<>>, ![p].work = <<>>]
    ELSE WorkerReturn(p, stats)

\* a worker process calls process_catalog_jobs, for at most `runs` calls
WorkerStart(w, runs) ==
    /\ proc[w].pc = "idle"
    /\ proc[w].calls < runs
    /\ \E limit \in 1..MaxLimit :
          proc' = [proc EXCEPT ![w] =
              [IdleProc EXCEPT !.calls = proc[w].calls + 1,
                               !.op = "worker", !.pc = "w_begin",
                               !.args = [NoArgs EXCEPT !.workspace = "wsA"],
                               !.limit = limit]]
    /\ UNCHANGED <<db, wlock, now, hist, cache>>

WorkerCall(w) == WorkerStart(w, MaxRuns)

\* _begin_immediate_with_retry, claim_next_catalog_job, commit: with the
\* lock held elsewhere for the whole of the retries the batch stops
WorkerBegin(p) ==
    /\ proc[p].pc = "w_begin"
    /\ IF LockTimeout(p)
       THEN /\ proc' = WorkerReturn(p,
                  [proc[p].stats EXCEPT !.lock_failures = @ + 1])
            /\ UNCHANGED <<db, hist>>
       ELSE LET res == claim_next_catalog_job(db, now, DEFAULT_LEASE_SECONDS)
            IN  /\ db' = res.db
                /\ UNCHANGED hist
                /\ proc' =
                     IF res.job = 0 THEN WorkerReturn(p, proc[p].stats)
                     ELSE [proc EXCEPT
                             ![p].pc = "w_resolve",
                             ![p].job = res.job,
                             ![p].lease = res.db.jobs[res.job].lease_expires_at,
                             ![p].stats.processed = @ + 1]
    /\ UNCHANGED <<wlock, now, cache>>

\* resolve_project_workspace for the claimed job
WorkerResolve(p) ==
    /\ proc[p].pc = "w_resolve"
    /\ LET to == AfterWorkspaceRead(db, proc[p].args.workspace, "w_build")
       IN  IF to = "bind"
           THEN IF LockFree(p)
                THEN /\ db' = BindWorkspace(db, proc[p].args.workspace)
                     /\ proc' = [proc EXCEPT ![p].pc = "w_build"]
                ELSE /\ proc' = [proc EXCEPT ![p].pc = "w_fail"]
                     /\ UNCHANGED db
           ELSE /\ proc' = [proc EXCEPT
                      ![p].pc = IF to = "mismatch" THEN "w_fail" ELSE to]
                /\ UNCHANGED db
    /\ UNCHANGED <<wlock, now, hist, cache>>

\* build_catalog_snapshot, outside any transaction: it returns or raises
WorkerBuild(p) ==
    /\ proc[p].pc = "w_build"
    /\ \/ proc' = [proc EXCEPT ![p].pc = "w_done"]
       \/ proc' = [proc EXCEPT ![p].pc = "w_fail"]
    /\ UNCHANGED <<db, wlock, now, hist, cache>>

\* what the worker's transaction writes: the snapshot, the ok link, done
WorkerWrites(d, job_id, workspace, t) ==
    LET payload == d.jobs[job_id].payload
        d1 == replace_catalog_snapshot(d, build_catalog_snapshot(workspace), t)
        memory_version == IF payload.memory_version # 0
                          THEN payload.memory_version
                          ELSE get_memory_version(d1)
        sync_id == IF payload.sync_id # <<"", 0>> THEN payload.sync_id
                   ELSE <<"job", job_id>>
        d2 == insert_consistency_link(d1, sync_id, memory_version,
                                      catalog_version_of(d1), "ok")
    IN  mark_catalog_job_done(d2, job_id)

\* BEGIN, replace_catalog_snapshot, insert_consistency_link,
\* mark_catalog_job_done: the first DELETE takes the write lock or times out
WorkerDone(p) ==
    /\ proc[p].pc = "w_done"
    /\ IF LockTimeout(p)
       THEN /\ proc' = [proc EXCEPT ![p].pc = "w_fail"]
            /\ UNCHANGED wlock
       ELSE /\ wlock' = p
            /\ proc' = [proc EXCEPT
                  ![p].pc = "w_commit",
                  ![p].work = <<WorkerWrites(db, proc[p].job,
                                             proc[p].args.workspace, now)>>]
    /\ UNCHANGED <<db, now, hist, cache>>

WorkerCommit(p) ==
    /\ proc[p].pc = "w_commit"
    /\ db' = proc[p].work[1]
    /\ wlock' = NoProc
    /\ proc' = WorkerLoop(p, [proc[p].stats EXCEPT !.succeeded = @ + 1])
    /\ UNCHANGED <<now, hist, cache>>

\* the except branch: BEGIN, then the SELECT of mark_catalog_job_failed
WorkerFailRead(p) ==
    /\ proc[p].pc = "w_fail"
    /\ proc' = [proc EXCEPT ![p].pc = "w_fail_write", ![p].snap = <<db>>]
    /\ UNCHANGED <<db, wlock, now, hist, cache>>

\* the UPDATE of mark_catalog_job_failed and the commit; refused, the
\* exception leaves process_catalog_jobs
WorkerFailWrite(p) ==
    /\ proc[p].pc = "w_fail_write"
    /\ IF CanUpgrade(p)
       THEN /\ db' = mark_catalog_job_failed(db, proc[p].job, now)
            /\ proc' = WorkerLoop(p, [proc[p].stats EXCEPT !.failed = @ + 1])
       ELSE /\ proc' = Finish(p, Raised("database is locked"))
            /\ UNCHANGED db
    /\ UNCHANGED <<wlock, now, hist, cache>>

\* ------------------------------------------------------- catalog health
\* the work tree under each workspace root, as the drift detector finds it:
\* wsA is a git work tree whose tracked source file f1 has an uncommitted
\* change, wsB is a plain directory, where the git command fails; a path's
\* content on disk is the content that was indexed
WorkTree(workspace_root) ==
    IF workspace_root = "wsA"
    THEN [git |-> TRUE, changed |-> {"f1"}, files |-> {"f1"}]
    ELSE [git |-> FALSE, changed |-> {}, files |-> {"f1"}]

\* fetch_catalog_hash_map: the indexed paths
fetch_catalog_hash_map(d) ==
    IF d.catalog = <<>> THEN {}
    ELSE { d.catalog[1].files[i] : i \in 1..Len(d.catalog[1].files) }

\* _detect_with_git_diff: git diff --name-only HEAD and the untracked files
detect_with_git_diff(workspace_root) == WorkTree(workspace_root).changed

\* _detect_with_hash: the paths whose known and current hashes differ, over
\* the union of both; the score in hundredths
detect_with_hash(workspace_root, known_hashes) ==
    LET current == WorkTree(workspace_root).files
        all_keys == known_hashes \cup current
        changed == (known_hashes \ current) \cup (current \ known_hashes)
    IN  (Cardinality(changed) * 100) \div Max(Cardinality(all_keys), 1)

\* detect_drift: the drift_score, in hundredths; git when it works, the
\* hashes otherwise
detect_drift(workspace_root, known_hashes) ==
    IF WorkTree(workspace_root).git
    THEN Min((Cardinality(detect_with_git_diff(workspace_root)) * 100)
                \div Max(Cardinality(known_hashes), 1), 100)
    ELSE detect_with_hash(workspace_root, known_hashes)

\* a variant counting the report as a change of the memory state
insert_drift_report_bump(d, drift_score) ==
    [d EXCEPT !.drift = Append(@, [drift_score |-> drift_score]),
              !.memory_version = @ + 1]

insert_drift_report(d, drift_score) ==
    [d EXCEPT !.drift = Append(@, [drift_score |-> drift_score])]

build_catalog_health(d) ==
    LET pending_jobs == count_pending_catalog_jobs(d)
        drift_score == IF d.drift = <<>> THEN 0 ELSE Last(d.drift).drift_score
        status == fetch_latest_consistency(d).consistency_status
    IN  IF get_catalog_meta(d) = <<>>
        THEN [ freshness |-> "unknown", catalog_version |-> UnknownCatalog,
               pending_jobs |-> pending_jobs, consistency_status |-> status ]
        ELSE [ freshness |-> IF pending_jobs > 0 \/ drift_score > 0
                             THEN "stale" ELSE "fresh",
               catalog_version |-> catalog_version_of(d),
               pending_jobs |-> pending_jobs, consistency_status |-> status ]

\* ------------------------------------------------------- the brief cache
\* _cache_key: project, prompt and token budget are the same in every
\* request made here
cache_key(task_type, catalog_version) == <<task_type, catalog_version>>

CacheIndex(c, key) == { i \in 1..Len(c) : c[i].key = key }

CacheWithout(c, key) == SelectSeq(c, LAMBDA e : e.key # key)

\* a variant whose hit leaves the entry where it is
cache_get_unmoved(c, key, t) ==
    IF CacheIndex(c, key) = {} THEN [cache |-> c, payload |-> <<>>]
    ELSE LET entry == c[CHOOSE i \in CacheIndex(c, key) : TRUE]
         IN  IF entry.expires_at <= t
             THEN [cache |-> CacheWithout(c, key), payload |-> <<>>]
             ELSE [cache |-> c, payload |-> <<entry.payload>>]

\* _cache_get: [cache, payload]; payload <<>> on a miss; an expired entry is
\* dropped, a hit becomes the most recent entry
cache_get(c, key, t) ==
    IF CacheIndex(c, key) = {} THEN [cache |-> c, payload |-> <<>>]
    ELSE LET entry == c[CHOOSE i \in CacheIndex(c, key) : TRUE]
         IN  IF entry.expires_at <= t
             THEN [cache |-> CacheWithout(c, key), payload |-> <<>>]
             ELSE [cache |-> Append(CacheWithout(c, key), entry),
                   payload |-> <<entry.payload>>]

RECURSIVE CacheTrim(_)
CacheTrim(c) == IF Len(c) > CACHE_MAX_SIZE THEN CacheTrim(Tail(c)) ELSE c

cache_set(c, key, payload, t) ==
    CacheTrim(Append(CacheWithout(c, key),
        [key |-> key, payload |-> payload, expires_at |-> t + CACHE_TTL_SECONDS]))

\* ---------------------------------------------------------------- pull
\* session_sync_pull: the reads of the memory state
PullStart(c, workspaces, task_types) ==
    /\ proc[c].pc = "idle"
    /\ TotalCalls < MaxCalls
    /\ \E ws \in workspaces, resolved_task_type \in task_types :
          proc' = [proc EXCEPT ![c] =
              [IdleProc EXCEPT
                  !.calls = proc[c].calls + 1, !.op = "pull", !.pc = "p_seed",
                  !.args = [NoArgs EXCEPT !.workspace = ws,
                                          !.task_type = resolved_task_type],
                  !.limit = BRIEF_JOB_LIMIT,
                  !.ret = [NoRet EXCEPT
                              !.status = "ok",
                              !.role_payloads =
                                  fetch_role_payloads(db,
                                      roles_for_task(resolved_task_type)),
                              !.handoff_latest = fetch_latest_handoff(db, now),
                              !.memory_version = get_memory_version(db),
                              !.sync_id = <<c, proc[c].calls + 1>>]]]
    /\ UNCHANGED <<db, wlock, now, hist, cache>>

\* a pull whose prompt resolves to planning
PullCall(c, workspaces) == PullStart(c, workspaces, {"planning"})

\* _ensure_catalog_seeded: nothing to do with files indexed; otherwise the
\* workspace is resolved and the snapshot replaces the catalog
PullSeed(c) ==
    /\ proc[c].pc = "p_seed"
    /\ LET meta == get_catalog_meta(db)
           to == AfterWorkspaceRead(db, proc[c].args.workspace, "p_seed_write")
       IN  proc' =
             IF meta # <<>> /\ meta[1].indexed_files > 0
             THEN [proc EXCEPT ![c].pc = "p_health"]
             ELSE IF to = "mismatch"
             THEN Finish(c, Raised("WORKSPACE_MISMATCH"))
             ELSE [proc EXCEPT
                     ![c].pc = IF to = "bind" THEN "p_seed_bind" ELSE to]
    /\ UNCHANGED <<db, wlock, now, hist, cache>>

PullSeedBind(c) ==
    /\ proc[c].pc = "p_seed_bind"
    /\ IF LockFree(c)
       THEN /\ db' = BindWorkspace(db, proc[c].args.workspace)
            /\ proc' = [proc EXCEPT ![c].pc = "p_seed_write"]
       ELSE /\ proc' = Finish(c, Raised("database is locked"))
            /\ UNCHANGED db
    /\ UNCHANGED <<wlock, now, hist, cache>>

PullSeedWrite(c) ==
    /\ proc[c].pc = "p_seed_write"
    /\ IF LockFree(c)
       THEN /\ db' = replace_catalog_snapshot(db,
                        build_catalog_snapshot(proc[c].args.workspace), now)
            /\ proc' = [proc EXCEPT ![c].pc = "p_health"]
       ELSE /\ proc' = Finish(c, Raised("database is locked"))
            /\ UNCHANGED db
    /\ UNCHANGED <<wlock, now, hist, cache>>

\* catalog_health_check, before and after the inline process_catalog_jobs:
\* with files indexed a drift report is written first
PullHealth(c) ==
    /\ proc[c].pc \in {"p_health", "p_health2"}
    /\ LET known == fetch_catalog_hash_map(db) # {}
           to == AfterWorkspaceRead(db, proc[c].args.workspace, "ok")
           after(h) == IF proc[c].pc = "p_health" /\ h.freshness \in {"stale", "unknown"}
                       THEN "w_begin" ELSE "p_brief"
       IN  IF ~known
           THEN /\ proc' = [proc EXCEPT
                      ![c].work = <<build_catalog_health(db)>>,
                      ![c].stats = NoStats,
                      ![c].pc = after(build_catalog_health(db))]
                /\ UNCHANGED db
           ELSE IF to = "mismatch"
           THEN /\ proc' = Finish(c, Raised("WORKSPACE_MISMATCH"))
                /\ UNCHANGED db
           ELSE IF ~LockFree(c)
           THEN /\ proc' = Finish(c, Raised("database is locked"))
                /\ UNCHANGED db
           ELSE   LET d0 == IF to = "bind"
                            THEN BindWorkspace(db, proc[c].args.workspace) ELSE db
                      score == detect_drift(proc[c].args.workspace,
                                            fetch_catalog_hash_map(db))
                      d1 == insert_drift_report(d0, score)
                  IN  /\ db' = d1
                      /\ proc' = [proc EXCEPT
                            ![c].work = <<build_catalog_health(d1)>>,
                            ![c].stats = NoStats,
                            ![c].pc = after(build_catalog_health(d1))]
    /\ UNCHANGED <<wlock, now, hist, cache>>

\* _build_catalog_brief_payload after the health checks: the cache, the
\* payload, and whether a refresh job is to be enqueued
BriefPayload(health, pending_jobs) ==
    [ catalog_version |-> health.catalog_version,
      freshness |-> health.freshness,
      pending_jobs |-> pending_jobs,
      consistency_status |-> health.consistency_status,
      cache_hit |-> FALSE,
      refresh_requested |-> FALSE ]

PullBrief(c) ==
    /\ proc[c].pc = "p_brief"
    /\ LET health == proc[c].work[1]
           pending_jobs == count_pending_catalog_jobs(db)
           key == cache_key(proc[c].args.task_type, health.catalog_version)
           got == IF health.freshness = "fresh" THEN cache_get(cache, key, now)
                  ELSE [cache |-> cache, payload |-> <<>>]
           payload == BriefPayload(health, pending_jobs)
           refresh == health.freshness \in {"stale", "unknown"} /\ pending_jobs = 0
           hit == [got.payload[1] EXCEPT
                      !.cache_hit = TRUE,
                      !.pending_jobs = pending_jobs,
                      !.consistency_status = health.consistency_status]
       IN  /\ cache' = IF got.payload # <<>> THEN got.cache
                       ELSE cache_set(got.cache, key, payload, now)
           /\ proc' = [proc EXCEPT
                  ![c].pc = IF got.payload = <<>> /\ refresh THEN "p_enqueue"
                            ELSE "p_audit",
                  ![c].ret.consistency = health.consistency_status,
                  ![c].ret.brief =
                      IF got.payload # <<>> THEN <<hit>>
                      ELSE <<[payload EXCEPT !.refresh_requested = refresh]>>]
           /\ hist' = IF health.freshness = "fresh"
                      THEN [hist EXCEPT !.freshKeys = @ \cup {key}] ELSE hist
    /\ UNCHANGED <<db, wlock, now>>

\* the refresh job of a stale or unknown catalog with nothing queued
RefreshPayload == [memory_version |-> 0, sync_id |-> <<"", 0>>,
                   reason |-> "pull_stale_refresh"]

PullEnqueue(c) ==
    /\ proc[c].pc = "p_enqueue"
    /\ IF LockFree(c)
       THEN /\ db' = enqueue_catalog_job(db, RefreshPayload, DEFAULT_MAX_ATTEMPTS, now)
            /\ proc' = [proc EXCEPT ![c].pc = "p_audit"]
       ELSE /\ proc' = Finish(c, Raised("database is locked"))
            /\ UNCHANGED db
    /\ UNCHANGED <<wlock, now, hist, cache>>

\* the audit row of the pull, commit
PullAudit(c) ==
    /\ proc[c].pc = "p_audit"
    /\ IF LockFree(c)
       THEN /\ db' = insert_sync_audit(db, SyncId(c), "pull", c, "")
            /\ proc' = Finish(c, proc[c].ret)
       ELSE /\ proc' = Finish(c, Raised("database is locked"))
            /\ UNCHANGED db
    /\ UNCHANGED <<wlock, now, hist, cache>>

\* ---------------------------------------------------------------- time
MaxProjectCalls == 4

\* the instants at which a stored lease or retry time is reached
Deadlines ==
    { db.jobs[i].lease_expires_at : i \in 1..Len(db.jobs) }
    \cup { db.jobs[i].next_retry_at : i \in 1..Len(db.jobs) }

\* the clock moves to the next such instant
Tick ==
    /\ \E t \in Deadlines :
          /\ t > now
          /\ t <= MaxTime
          /\ \A u \in Deadlines : u > now => t <= u
          /\ now' = t
          /\ hist' = [hist EXCEPT !.lapsed = @ \cup
                { i \in 1..Len(db.jobs) :
                    /\ db.jobs[i].status = "running"
                    /\ db.jobs[i].lease_expires_at # NullTime
                    /\ db.jobs[i].lease_expires_at <= t }]
    /\ UNCHANGED <<db, wlock, proc, cache>>

Init ==
    /\ db = InitDb
    /\ wlock = NoProc
    /\ proc = [p \in Procs |-> IdleProc]
    /\ now = 0
    /\ hist = NoHist
    /\ cache = <<>>

Next ==
    \/ \E c \in Clients : PushCall(c, SyncArgs)
    \/ \E c \in Clients : PushBind(c)
    \/ \E c \in Clients : PushBegin(c)
    \/ \E c \in Clients : PushConflict(c)
    \/ \E c \in Clients : PushWrite(c)
    \/ \E c \in Clients : PushCommit(c)
    \/ \E c \in Clients : PushAbort(c)
    \/ \E c \in Clients : ResolveCall(c, ResolveArgs)
    \/ \E c \in Clients : ResolveAccept(c)

Spec == Init /\ [][Next]_vars

\* --------------------------------------- pull, push and resolve_conflict
\* the calls of the whole session-sync interface, from either workspace
ApiArgs == { MakeArgs(ws, st, PayloadK1) : ws \in Workspaces, st \in {NullStamp, DictStamp(0)} }
ApiResolveArgs == { MakeArgs(ws, NullStamp, PayloadK1) : ws \in Workspaces }

NextApi ==
    \/ \E c \in Clients : PushCall(c, ApiArgs)
    \/ \E c \in Clients : PushBind(c)
    \/ \E c \in Clients : PushBegin(c)
    \/ \E c \in Clients : PushConflict(c)
    \/ \E c \in Clients : PushWrite(c)
    \/ \E c \in Clients : PushCommit(c)
    \/ \E c \in Clients : PushAbort(c)
    \/ \E c \in Clients : ResolveCall(c, ApiResolveArgs)
    \/ \E c \in Clients : ResolveAccept(c)
    \/ \E c \in Clients : PullCall(c, Workspaces)
    \/ \E c \in Clients : PullSeed(c)
    \/ \E c \in Clients : PullSeedBind(c)
    \/ \E c \in Clients : PullSeedWrite(c)
    \/ \E c \in Clients : PullHealth(c)
    \/ \E c \in Clients : WorkerBegin(c)
    \/ \E c \in Clients : WorkerResolve(c)
    \/ \E c \in Clients : WorkerBuild(c)
    \/ \E c \in Clients : WorkerDone(c)
    \/ \E c \in Clients : WorkerCommit(c)
    \/ \E c \in Clients : WorkerFailRead(c)
    \/ \E c \in Clients : WorkerFailWrite(c)
    \/ \E c \in Clients : PullBrief(c)
    \/ \E c \in Clients : PullEnqueue(c)
    \/ \E c \in Clients : PullAudit(c)

SpecApi == Init /\ [][NextApi]_vars

\* ------------------------------------------------- the workers on a queue
\* the store after n pushes by c1, each of which enqueued one job
RECURSIVE DbAfterPushes(_)
DbAfterPushes(n) ==
    IF n = 0 THEN BindWorkspace(InitDb, "wsA")
    ELSE PushWrites(DbAfterPushes(n - 1), "c1", MakeArgs("wsA", NullStamp, PayloadK1),
                    normalize_role_deltas(MakeArgs("wsA", NullStamp, PayloadK1)),
                    <<"c1", n>>, 0)

InitWorkers ==
    /\ \E n \in 1..MaxJobs : db = DbAfterPushes(n)
    /\ wlock = NoProc
    /\ proc = [p \in Procs |-> IdleProc]
    /\ now = 0
    /\ hist = NoHist
    /\ cache = <<>>

NextWorkers ==
    \/ \E w \in Workers : WorkerCall(w)
    \/ \E w \in Workers : WorkerBegin(w)
    \/ \E w \in Workers : WorkerResolve(w)
    \/ \E w \in Workers : WorkerBuild(w)
    \/ \E w \in Workers : WorkerDone(w)
    \/ \E w \in Workers : WorkerCommit(w)
    \/ \E w \in Workers : WorkerFailRead(w)
    \/ \E w \in Workers : WorkerFailWrite(w)
    \/ Tick

SpecWorkers == InitWorkers /\ [][NextWorkers]_vars

\* ------------------------------------------ one job through its retries
\* the process of a worker dies inside process_catalog_jobs: its open
\* transaction, if any, is rolled back by SQLite and nothing else is undone
WorkerCrash(w) ==
    /\ proc[w].pc \notin {"idle"}
    /\ proc[w].op = "worker"
    /\ wlock' = IF wlock = w THEN NoProc ELSE wlock
    /\ proc' = Finish(w, Raised("crashed"))
    /\ UNCHANGED <<db, now, hist, cache>>

InitRetry ==
    /\ db = DbAfterPushes(1)
    /\ wlock = NoProc
    /\ proc = [p \in Procs |-> IdleProc]
    /\ now = 0
    /\ hist = NoHist
    /\ cache = <<>>

NextRetry ==
    \/ \E w \in Workers : WorkerStart(w, MaxRetryRuns)
    \/ \E w \in Workers : WorkerBegin(w)
    \/ \E w \in Workers : WorkerResolve(w)
    \/ \E w \in Workers : WorkerBuild(w)
    \/ \E w \in Workers : WorkerDone(w)
    \/ \E w \in Workers : WorkerCommit(w)
    \/ \E w \in Workers : WorkerFailRead(w)
    \/ \E w \in Workers : WorkerFailWrite(w)
    \/ \E w \in Workers : WorkerCrash(w)
    \/ Tick

SpecRetry == InitRetry /\ [][NextRetry]_vars

\* ------------------------------------------- recovery of a crashed worker
\* a worker that keeps invoking process_catalog_jobs: the calls after the
\* first MaxRuns are not counted
WorkerAgain(w) ==
    /\ proc[w].pc = "idle"
    /\ \E limit \in 1..MaxLimit :
          proc' = [proc EXCEPT ![w] =
              [IdleProc EXCEPT !.calls = Min(proc[w].calls + 1, MaxRuns + 1),
                               !.op = "worker", !.pc = "w_begin",
                               !.args = [NoArgs EXCEPT !.workspace = "wsA"],
                               !.limit = limit]]
    /\ UNCHANGED <<db, wlock, now, hist, cache>>

\* a worker process dies in one of its first MaxRuns calls
WorkerCrashEarly(w) ==
    /\ proc[w].calls <= MaxRuns
    /\ WorkerCrash(w)

\* the steps of one call of process_catalog_jobs
WorkerSteps(w) ==
    \/ WorkerBegin(w)
    \/ WorkerResolve(w)
    \/ WorkerBuild(w)
    \/ WorkerDone(w)
    \/ WorkerCommit(w)
    \/ WorkerFailRead(w)
    \/ WorkerFailWrite(w)

NextRecover ==
    \/ WorkerCall("w1")
    \/ WorkerAgain("w2")
    \/ \E w \in Workers : WorkerSteps(w)
    \/ WorkerCrashEarly("w1")
    \/ Tick

\* w1 runs once and may die; w2 is invoked again and again; a running
\* process takes its next step and time passes; nothing obliges a process
\* to crash
SpecRecover ==
    /\ InitRetry
    /\ [][NextRecover]_vars
    /\ \A w \in Workers : WF_vars(WorkerSteps(w))
    /\ WF_vars(WorkerAgain("w2"))
    /\ WF_vars(Tick)

\* ---------------------------------------------------------- push then pull
\* forced pushes of one, two and nine deltas, and pulls for two task types
PullPushArgs ==
    { MakeArgs("wsB", NullStamp, pl) :
        pl \in {PayloadK1, PayloadFold, PayloadClose, PayloadWide} }

PullTaskTypes == {"planning", "implement"}

NextPull ==
    \/ \E c \in Clients : PushCall(c, PullPushArgs)
    \/ \E c \in Clients : PushBind(c)
    \/ \E c \in Clients : PushBegin(c)
    \/ \E c \in Clients : PushWrite(c)
    \/ \E c \in Clients : PushCommit(c)
    \/ \E c \in Clients : PushAbort(c)
    \/ \E c \in Clients : PullStart(c, {"wsB"}, PullTaskTypes)
    \/ \E c \in Clients : PullSeed(c)
    \/ \E c \in Clients : PullSeedBind(c)
    \/ \E c \in Clients : PullSeedWrite(c)
    \/ \E c \in Clients : PullHealth(c)
    \/ \E c \in Clients : WorkerBegin(c)
    \/ \E c \in Clients : WorkerResolve(c)
    \/ \E c \in Clients : WorkerBuild(c)
    \/ \E c \in Clients : WorkerDone(c)
    \/ \E c \in Clients : WorkerCommit(c)
    \/ \E c \in Clients : WorkerFailRead(c)
    \/ \E c \in Clients : WorkerFailWrite(c)
    \/ \E c \in Clients : PullBrief(c)
    \/ \E c \in Clients : PullEnqueue(c)
    \/ \E c \in Clients : PullAudit(c)

SpecPull == Init /\ [][NextPull]_vars

\* ------------------------------------------- pushes with every stamp form
\* the stamps as clients send them: null, objects, legacy strings (as
\* written by str, in upper case, with blanks around), and forms that are
\* refused
SentStamps ==
    Stamps
    \cup { LegacyStamp(n) : n \in 0..MaxStamp }
    \cup { StrStamp(<<" ", "V", "0", " ">>), StrStamp(<<"v">>),
           StrStamp(<<"1">>), StrStamp(<<"v", "-", "1">>),
           DictStamp(-1), OtherStamp }

LegacyPayloads == {PayloadK1, PayloadClose}

LegacyArgs == { MakeArgs("wsA", st, pl) : st \in SentStamps, pl \in LegacyPayloads }

\* session_sync_push run alone on store d: what it returns and the store
\* it leaves
PushResult(d, c, sent, sync_id, t) ==
    LET invalid == validate_context_stamp(sent.context_stamp)
        base_version == parse_context_stamp(sent.context_stamp)
        role_deltas == normalize_role_deltas(sent)
        to == AfterWorkspaceRead(d, sent.workspace, "begin")
        d0 == IF to = "bind" THEN BindWorkspace(d, sent.workspace) ELSE d
        conflicts == detect_conflicts(d0, base_version.value, role_deltas)
    IN  IF invalid # "" \/ base_version.error # ""
        THEN [ret |-> Raised("INVALID_CONTEXT_STAMP"), db |-> d]
        ELSE IF to = "mismatch"
        THEN [ret |-> Raised("WORKSPACE_MISMATCH"), db |-> d]
        ELSE IF conflicts # <<>>
        THEN [ret |-> PushNeedsResolution(d0, conflicts, sync_id),
              db |-> PushConflictWrites(d0, c, sync_id)]
        ELSE [ret |-> PushOk(d0, sync_id),
              db |-> PushWrites(d0, c, sent, role_deltas, sync_id, t)]

NextLegacy ==
    \/ \E c \in Clients : PushCall(c, LegacyArgs)
    \/ \E c \in Clients : PushBind(c)
    \/ \E c \in Clients : PushBegin(c)
    \/ \E c \in Clients : PushConflict(c)
    \/ \E c \in Clients : PushWrite(c)
    \/ \E c \in Clients : PushCommit(c)
    \/ \E c \in Clients : PushAbort(c)

SpecLegacy == Init /\ [][NextLegacy]_vars

\* ------------------------------------- resolve_conflict beside a worker
\* the project after one or two pushes, their jobs queued: one worker runs
\* while a client resolves conflicts with each of the strategies
NextResolve ==
    \/ WorkerCall("w1")
    \/ WorkerBegin("w1")
    \/ WorkerResolve("w1")
    \/ WorkerBuild("w1")
    \/ WorkerDone("w1")
    \/ WorkerCommit("w1")
    \/ WorkerFailRead("w1")
    \/ WorkerFailWrite("w1")
    \/ ResolveCall("c1", ResolveArgs)
    \/ ResolveAccept("c1")
    \/ PushBegin("c1")
    \/ PushWrite("c1")
    \/ PushCommit("c1")
    \/ PushAbort("c1")

SpecResolve == InitWorkers /\ [][NextResolve]_vars

\* ------------------------------------------- pushes as the client sends them
VALID_ROLES == {"pm", "architect", "dev", "qa"}

\* the texts in use, written out in characters
Chars(name) ==
    CASE name = "pm" -> <<"p", "m">>
      [] name = "dev" -> <<"d", "e", "v">>
      [] name = "qa" -> <<"q", "a">>
      [] name = "architect" -> <<"a", "r", "c", "h", "i", "t", "e", "c", "t">>
      [] name = "k1" -> <<"k", "1">>
      [] name = "manager" -> <<"m", "a", "n", "a", "g", "e", "r">>
      [] OTHER -> <<>>

\* normalize_role: strip, lower, ValueError for a role outside VALID_ROLES
normalize_role(role) ==
    LET role_value == Lower(Strip(role))
    IN  IF \E r \in VALID_ROLES : Chars(r) = role_value
        THEN [error |-> "",
              value |-> CHOOSE r \in VALID_ROLES : Chars(r) = role_value]
        ELSE [error |-> "ValueError", value |-> ""]

\* a role_deltas item as sent: role and memory_key in characters,
\* confidence in hundredths
SentItem(role, memory_key, confidence) ==
    [role |-> role, memory_key |-> memory_key, confidence |-> confidence]

\* the arguments of a push as sent: role_deltas is a list of items, a
\* string, or absent
Sent(stamp, kind, items) ==
    [ workspace |-> "wsA", context_stamp |-> stamp,
      role_deltas_type |-> kind, role_deltas |-> items ]

\* _ensure_list: None becomes the empty list, any other non-list is refused
ensure_list(kind, items) ==
    IF kind = "null" THEN [error |-> "", value |-> <<>>]
    ELSE IF kind # "list" THEN [error |-> "INVALID_PUSH_PAYLOAD", value |-> <<>>]
    ELSE [error |-> "", value |-> items]

\* the checks of validate_push_payload on one role_deltas item
ItemRefused(item) ==
    \/ Strip(item.role) = <<>>
    \/ Strip(item.memory_key) = <<>>
    \/ item.confidence < 0
    \/ item.confidence > 100

\* validate_push_payload: the error it raises, "" for none; the
\* context_stamp is looked at before role_deltas
validate_push_payload(sent) ==
    LET role_deltas == ensure_list(sent.role_deltas_type, sent.role_deltas)
    IN  IF validate_context_stamp(sent.context_stamp) # ""
        THEN validate_context_stamp(sent.context_stamp)
        ELSE IF role_deltas.error # "" THEN role_deltas.error
        ELSE IF \E i \in 1..Len(role_deltas.value) :
                    ItemRefused(role_deltas.value[i])
        THEN "INVALID_PUSH_PAYLOAD"
        ELSE ""

\* the text of a memory_key, stripped
KeyText(memory_key) ==
    IF Strip(memory_key) = Chars("k1") THEN "k1" ELSE "k2"

\* the role deltas _normalize_role_deltas makes of the items sent, or the
\* error of the first role normalize_role refuses
SentDeltas(sent) ==
    LET items == ensure_list(sent.role_deltas_type, sent.role_deltas).value
    IN  IF \E i \in 1..Len(items) : normalize_role(items[i].role).error # ""
        THEN [error |-> "ValueError", value |-> <<>>]
        ELSE [error |-> "",
              value |-> [i \in 1..Len(items) |->
                            Delta(<<normalize_role(items[i].role).value,
                                    KeyText(items[i].memory_key)>>, "a")]]

\* session_sync_push from its first line: validate_push_payload,
\* parse_context_stamp, _normalize_role_deltas, then the workspace check
StartPushSent(c, sent) ==
    LET invalid == validate_push_payload(sent)
        base_version == parse_context_stamp(sent.context_stamp)
        role_deltas == SentDeltas(sent)
        fails(error_code) ==
            [proc EXCEPT ![c] =
                [IdleProc EXCEPT !.calls = proc[c].calls + 1,
                                 !.ret = Raised(error_code)]]
    IN  IF invalid # "" THEN fails(invalid)
        ELSE IF base_version.error # "" THEN fails(base_version.error)
        ELSE IF role_deltas.error # "" THEN fails(role_deltas.error)
        ELSE StartPush(c, "push",
                       MakeArgs(sent.workspace, sent.context_stamp,
                                Payload(role_deltas.value, <<>>, NoLoops)))

PushCallSent(c, inputs) ==
    /\ proc[c].pc = "idle"
    /\ TotalCalls < MaxCalls
    /\ \E sent \in inputs :
          /\ proc' = StartPushSent(c, sent)
          /\ hist' = [hist EXCEPT !.sent = <<sent>>]
    /\ UNCHANGED <<db, wlock, now, cache>>

\* items that differ from an accepted one in one field: roles outside
\* VALID_ROLES, in upper case with blanks, and empty; memory keys empty
\* and blank; confidences at and beyond both ends
GoodItem == SentItem(Chars("pm"), Chars("k1"), 70)
SentRoles == {Chars("pm"), <<" ", "P", "M", " ">>, Chars("manager"), <<>>}
SentKeys == {Chars("k1"), <<>>, <<" ">>}
SentConfidences == {-1, 0, 70, 100, 101}
SentItems ==
    { SentItem(r, Chars("k1"), 70) : r \in SentRoles }
    \cup { SentItem(Chars("pm"), k, 70) : k \in SentKeys }
    \cup { SentItem(Chars("pm"), Chars("k1"), cf) : cf \in SentConfidences }

\* the stamps: null, objects, a legacy string, and the forms refused
SentForms ==
    { NullStamp, DictStamp(0), DictStamp(1), LegacyStamp(0),
      DictStamp(-1), OtherStamp, StrStamp(<<"x">>) }

SentArgs ==
    { Sent(NullStamp, "list", <<it>>) : it \in SentItems }
    \cup { Sent(NullStamp, "list", <<GoodItem, it>>) : it \in SentItems }
    \cup { Sent(st, "list", <<GoodItem>>) : st \in SentForms }
    \cup { Sent(NullStamp, kind, <<>>) : kind \in {"list", "null", "str"} }
    \cup { Sent(DictStamp(-1), "str", <<>>) }

NextSent ==
    \/ \E c \in Clients : PushCallSent(c, SentArgs)
    \/ \E c \in Clients : PushBind(c)
    \/ \E c \in Clients : PushBegin(c)
    \/ \E c \in Clients : PushConflict(c)
    \/ \E c \in Clients : PushWrite(c)
    \/ \E c \in Clients : PushCommit(c)
    \/ \E c \in Clients : PushAbort(c)

SpecSent == Init /\ [][NextSent]_vars

\* ------------------------------------------------------ the server's calls
\* a tools/call request: the tool's name, the project_id among its
\* arguments ("" when missing or blank), and the rest of the arguments
Request(name, project_id, arguments) ==
    [name |-> name, project_id |-> project_id, arguments |-> arguments]

\* the direction _audit_tool_error records for a tool
audit_direction(tool_name) ==
    CASE tool_name = "session.sync.pull" -> "pull"
      [] tool_name = "session.sync.push" -> "push"
      [] tool_name = "session.sync.resolve_conflict" -> "resolve_conflict"
      [] tool_name = "catalog.brief.generate" -> "catalog_brief"
      [] tool_name = "catalog.health.check" -> "catalog_health"
      [] OTHER -> "tool_error"

\* the error code handle_request audits and answers with: a BusinessError
\* keeps its code, a ValueError is INVALID_PARAMS, anything else
\* TOOL_CALL_FAILED
BusinessErrors ==
    { "INVALID_PUSH_PAYLOAD", "INVALID_CONTEXT_STAMP", "WORKSPACE_MISMATCH",
      "MISSING_REQUIRED_FIELDS" }

audited_error_code(raised) ==
    IF raised \in BusinessErrors THEN raised
    ELSE IF raised = "ValueError" THEN "INVALID_PARAMS"
    ELSE "TOOL_CALL_FAILED"

\* handle_tool_call up to the first step of the tool: an unknown tool is a
\* ValueError, a tool without project_id fails its required-field check
\* (validate_push_payload for push, _required for the others)
handle_tool_call(c, request) ==
    LET fails(error_code) ==
            [proc EXCEPT ![c] =
                [IdleProc EXCEPT !.calls = proc[c].calls + 1,
                                 !.ret = Raised(error_code)]]
    IN  IF request.name = "session.sync.push"
        THEN IF request.project_id = "" THEN fails("INVALID_PUSH_PAYLOAD")
             ELSE StartPushSent(c, request.arguments)
        ELSE IF request.name \in { "session.sync.pull", "session.sync.resolve_conflict",
                                   "catalog.brief.generate", "catalog.health.check" }
        THEN fails("MISSING_REQUIRED_FIELDS")
        ELSE fails("ValueError")

\* the tool has raised and handle_request has not yet answered
ErrorPending(c) == proc[c].pc = "idle" /\ proc[c].ret.status = "error"

\* handle_request, method tools/call, up to the tool's first step; the
\* client sends its next request after the answer to the last one
ServerCall(c, requests) ==
    /\ proc[c].pc = "idle"
    /\ ~ErrorPending(c)
    /\ TotalCalls < MaxCalls
    /\ \E request \in requests :
          /\ proc' = handle_tool_call(c, request)
          /\ hist' = [hist EXCEPT !.request[c] = <<request>>]
    /\ UNCHANGED <<db, wlock, now, cache>>

\* the except branches of handle_request: _audit_tool_error, then the
\* JSON-RPC error.  No row without a project_id; the insert waits for the
\* write lock and a failure of the insert is swallowed
ServerError(c) ==
    LET request == Head(hist.request[c])
        error_code == audited_error_code(proc[c].ret.error)
        answered == [proc EXCEPT ![c].ret.status = "rpc_error",
                                 ![c].ret.error = error_code]
    IN  /\ ErrorPending(c)
        /\ hist.request[c] # <<>>
        /\ proc' = answered
        /\ \/ /\ request.project_id = ""
              /\ UNCHANGED db
           \/ /\ request.project_id # ""
              /\ LockFree(c)
              /\ db' = insert_sync_audit(db, <<"err", c, proc[c].calls>>,
                                         audit_direction(request.name), c,
                                         error_code)
           \/ /\ request.project_id # ""
              /\ LockTimeout(c)
              /\ UNCHANGED db
        /\ UNCHANGED <<wlock, now, hist, cache>>

\* requests: pushes that pass, pushes that are refused, tools called
\* without a project_id, and a tool the server does not have
NoArguments == Sent(NullStamp, "null", <<>>)

Requests ==
    { Request("session.sync.push", "proj", Sent(st, "list", <<GoodItem>>)) :
        st \in {NullStamp, DictStamp(0), OtherStamp} }
    \cup { Request("session.sync.push", "proj",
                   Sent(NullStamp, "list", <<SentItem(Chars("manager"), Chars("k1"), 70)>>)),
           Request("session.sync.push", "proj", Sent(NullStamp, "str", <<>>)),
           Request("session.sync.push", "", Sent(NullStamp, "list", <<GoodItem>>)) }
    \cup { Request(name, "", NoArguments) :
             name \in { "session.sync.pull", "session.sync.resolve_conflict",
                        "catalog.brief.generate", "catalog.health.check" } }
    \cup { Request("no.such.tool", project_id, NoArguments) :
             project_id \in {"proj", ""} }

NextServer ==
    \/ \E c \in Clients : ServerCall(c, Requests)
    \/ \E c \in Clients : ServerError(c)
    \/ \E c \in Clients : PushBind(c)
    \/ \E c \in Clients : PushBegin(c)
    \/ \E c \in Clients : PushConflict(c)
    \/ \E c \in Clients : PushWrite(c)
    \/ \E c \in Clients : PushCommit(c)
    \/ \E c \in Clients : PushAbort(c)

SpecServer == Init /\ [][NextServer]_vars

\* -------------------------------------------------- listing the audit log
\* the arguments of a session.sync.audit.list call: the direction ("" when
\* none is given) and the limit
AuditQuery(direction, limit) == [direction |-> direction, limit |-> limit]

\* the limits at and beyond both ends of the range 1..500
AuditLimits ==
    { 0, 1, 2, 500, 501 }

AuditListRequests ==
    { Request("session.sync.audit.list", "proj", AuditQuery(direction, limit)) :
        direction \in {"", "push", "pull"}, limit \in AuditLimits }

\* pushes that pass and pushes that are refused, which fill the audit log
AuditPushRequests ==
    { Request("session.sync.push", "proj", Sent(st, "list", <<GoodItem>>)) :
        st \in {NullStamp, DictStamp(0), OtherStamp} }

NextAudit ==
    \/ \E c \in Clients : ServerCall(c, AuditListRequests)
    \/ \E c \in Clients : ServerCall(c, AuditPushRequests)
    \/ \E c \in Clients : ServerError(c)
    \/ \E c \in Clients : PushBind(c)
    \/ \E c \in Clients : PushBegin(c)
    \/ \E c \in Clients : PushConflict(c)
    \/ \E c \in Clients : PushWrite(c)
    \/ \E c \in Clients : PushCommit(c)
    \/ \E c \in Clients : PushAbort(c)

SpecAudit == Init /\ [][NextAudit]_vars

\* ------------------------------------------------------ opening the store
\* the statements of a migration file run on a schema: the schema they
\* leave, or the error of the first statement that fails.  000 creates the
\* core tables, 001 to 005 add the catalog tables and columns (an existing
\* table or column is not an error), 006 rebuilds sync_audit under the
\* name sync_audit_new with the wider direction check, drops the old table
\* and renames the new one
migration_script(schema, version) ==
    IF version = "000"
    THEN [error |-> "",
          schema |-> [schema EXCEPT
              !.tables = @ \cup CoreTables,
              !.directions.sync_audit =
                  IF "sync_audit" \in schema.tables THEN @ ELSE OldDirections]]
    ELSE IF version # "006"
    THEN [error |-> "",
          schema |-> [schema EXCEPT !.tables = @ \cup CatalogTables]]
    ELSE IF "sync_audit_new" \in schema.tables
    THEN [error |-> "table sync_audit_new already exists", schema |-> schema]
    ELSE IF "sync_audit" \notin schema.tables
    THEN [error |-> "no such table: sync_audit", schema |-> schema]
    ELSE [error |-> "",
          schema |-> [schema EXCEPT !.directions.sync_audit = NewDirections]]

\* one round of init_db's loop: BEGIN IMMEDIATE, the script, the row in
\* schema_migrations, commit; any error rolls the transaction back
apply_migration(d, version) ==
    LET ran == migration_script(d.schema, version)
    IN  IF ran.error # "" THEN [error |-> ran.error, db |-> d]
        ELSE IF version \in d.schema.migrations
        THEN [error |-> "UNIQUE constraint failed: schema_migrations.version",
              db |-> d]
        ELSE [error |-> "",
              db |-> [d EXCEPT !.schema =
                        [ran.schema EXCEPT !.migrations = @ \cup {version}]]]

\* a variant of the loop that does not skip the versions already applied
next_pending_all(applied_versions, i) == i

\* the first file from position i on whose version is not applied;
\* Len(MIGRATIONS) + 1 when there is none
RECURSIVE next_pending(_, _)
next_pending(applied_versions, i) ==
    IF i > Len(MIGRATIONS) THEN i
    ELSE IF MIGRATIONS[i] \in applied_versions
    THEN next_pending(applied_versions, i + 1)
    ELSE i

\* the condition under which _heal_half_migrated renames
HalfMigrated(schema) ==
    "sync_audit_new" \in schema.tables /\ "sync_audit" \notin schema.tables

\* a variant that never finds anything to heal
heal_needed_never(schema) == FALSE

heal_needed(schema) == HalfMigrated(schema)

\* what the opens have done to the schema, in order
Event(c, what, full) == [who |-> c, what |-> what, full |-> full]

\* the store as a completed init_db leaves it
Initialised(d) == d.schema = FullSchema /\ d.meta_row

\* connect: _ensure_schema_migrations_table
OpenCall(c) ==
    /\ proc[c].pc = "idle"
    /\ TotalCalls < MaxCalls
    /\ proc' = [proc EXCEPT ![c] =
                  [IdleProc EXCEPT !.op = "open", !.calls = proc[c].calls + 1,
                                   !.pc = "o_heal"]]
    /\ db' = [db EXCEPT !.schema.tables = @ \cup {"schema_migrations"}]
    /\ hist' = [hist EXCEPT !.migrated =
                  Append(@, Event(c, "open", Initialised(db)))]
    /\ UNCHANGED <<wlock, now, cache>>

\* _heal_half_migrated: the tables are read
OpenHeal(c) ==
    /\ proc[c].pc = "o_heal"
    /\ proc' = [proc EXCEPT ![c].pc =
                  IF heal_needed(db.schema) THEN "o_rename" ELSE "o_read"]
    /\ UNCHANGED <<db, wlock, now, hist, cache>>

\* _heal_half_migrated: ALTER TABLE sync_audit_new RENAME TO sync_audit
OpenRename(c) ==
    /\ proc[c].pc = "o_rename"
    /\ \/ /\ LockFree(c)
          /\ HalfMigrated(db.schema)
          /\ db' = [db EXCEPT
                      !.schema.tables = (@ \ {"sync_audit_new"}) \cup {"sync_audit"},
                      !.schema.directions =
                          [sync_audit |-> @.sync_audit_new, sync_audit_new |-> {}]]
          /\ hist' = [hist EXCEPT !.migrated = Append(@, Event(c, "heal", FALSE))]
          /\ proc' = [proc EXCEPT ![c].pc = "o_read"]
       \/ /\ LockFree(c)
          /\ ~HalfMigrated(db.schema)
          /\ proc' = Finish(c, Raised("no such table: sync_audit_new"))
          /\ UNCHANGED <<db, hist>>
       \/ /\ LockTimeout(c)
          /\ proc' = Finish(c, Raised("database is locked"))
          /\ UNCHANGED <<db, hist>>
    /\ UNCHANGED <<wlock, now, cache>>

\* init_db: the applied versions are read
OpenRead(c) ==
    LET applied_versions == db.schema.migrations
        i == next_pending(applied_versions, 1)
    IN  /\ proc[c].pc = "o_read"
        /\ proc' = [proc EXCEPT
                      ![c].work = <<applied_versions, i>>,
                      ![c].pc = IF i > Len(MIGRATIONS) THEN "o_meta"
                                ELSE "o_migrate"]
        /\ UNCHANGED <<db, wlock, now, hist, cache>>

\* init_db: the next migration that was not applied when the versions
\* were read
OpenMigrate(c) ==
    LET applied_versions == proc[c].work[1]
        version == MIGRATIONS[proc[c].work[2]]
        applied == apply_migration(db, version)
        i == next_pending(applied_versions, proc[c].work[2] + 1)
    IN  /\ proc[c].pc = "o_migrate"
        /\ \/ /\ LockFree(c)
              /\ applied.error = ""
              /\ db' = applied.db
              /\ hist' = [hist EXCEPT !.migrated =
                            Append(@, Event(c, version, FALSE))]
              /\ proc' = [proc EXCEPT
                            ![c].work = <<applied_versions, i>>,
                            ![c].pc = IF i > Len(MIGRATIONS) THEN "o_meta"
                                      ELSE "o_migrate"]
           \/ /\ LockFree(c)
              /\ applied.error # ""
              /\ proc' = Finish(c, Raised(applied.error))
              /\ UNCHANGED <<db, hist>>
           \/ /\ LockTimeout(c)
              /\ proc' = Finish(c, Raised("database is locked"))
              /\ UNCHANGED <<db, hist>>
        /\ UNCHANGED <<wlock, now, cache>>

\* init_db: the project_meta row is inserted with memory_version 0 unless
\* it is there
OpenMeta(c) ==
    /\ proc[c].pc = "o_meta"
    /\ db' = IF db.meta_row THEN db
             ELSE [db EXCEPT !.meta_row = TRUE, !.memory_version = 0]
    /\ proc' = Finish(c, [NoRet EXCEPT !.status = "ok"])
    /\ UNCHANGED <<wlock, now, hist, cache>>

\* the stores an open finds: a file just created, stores in use, and
\* stores in use left half-migrated
FreshDb == [InitDb EXCEPT !.schema = NoSchema, !.meta_row = FALSE]
HalfDb(d) == [d EXCEPT !.schema = HalfSchema]
OpenStores ==
    { FreshDb, InitDb, DbAfterPushes(1), DbAfterPushes(2),
      HalfDb(InitDb), HalfDb(DbAfterPushes(2)) }

InitOpen ==
    /\ db \in OpenStores
    /\ wlock = NoProc
    /\ proc = [p \in Procs |-> IdleProc]
    /\ now = 0
    /\ hist = NoHist
    /\ cache = <<>>

NextOpen ==
    \/ \E c \in Clients : OpenCall(c)
    \/ \E c \in Clients : OpenHeal(c)
    \/ \E c \in Clients : OpenRename(c)
    \/ \E c \in Clients : OpenRead(c)
    \/ \E c \in Clients : OpenMigrate(c)
    \/ \E c \in Clients : OpenMeta(c)

SpecOpen == InitOpen /\ [][NextOpen]_vars

\* ------------------------------------------------- the brief cache alone
\* reads and writes of the cache, at most MaxCacheOps of them, over
\* MaxCacheTicks half-lifetimes of an entry
MaxCacheOps == 3
MaxCacheTicks == 4

\* a cache filled by n writes at time 0, keys 1 to n, key 1 written first
FilledCache(n) ==
    [i \in 1..n |->
        [key |-> i, payload |-> <<"brief", i>>, expires_at |-> CACHE_TTL_SECONDS]]

\* the keys read and written: the two oldest of the filled cache and two
\* it does not hold
CacheKeys == {1, 2, CACHE_MAX_SIZE + 1, CACHE_MAX_SIZE + 2}

\* the number of the access client c makes next: the writes that filled
\* the cache come first
NextAccess(c) == CACHE_MAX_SIZE + proc[c].calls + 1

InitCache ==
    /\ db = InitDb
    /\ wlock = NoProc
    /\ proc = [p \in Procs |-> IdleProc]
    /\ now = 0
    /\ \E n \in {CACHE_MAX_SIZE - 1, CACHE_MAX_SIZE} :
          /\ cache = FilledCache(n)
          /\ hist = [NoHist EXCEPT !.accessed =
                        [k \in 1..(CACHE_MAX_SIZE + 2) |-> IF k <= n THEN k ELSE 0]]

\* _cache_get(key) by client c
CacheRead(c, key) ==
    LET got == cache_get(cache, key, now)
    IN  /\ proc[c].calls < MaxCacheOps
        /\ cache' = got.cache
        /\ proc' = [proc EXCEPT ![c].calls = @ + 1, ![c].op = "cache_get",
                                ![c].work = <<key>>, ![c].ret.brief = got.payload]
        /\ hist' = IF got.payload = <<>> THEN hist
                   ELSE [hist EXCEPT !.accessed[key] = NextAccess(c)]
        /\ UNCHANGED <<db, wlock, now>>

\* _cache_set(key, payload) by client c
CacheWrite(c, key) ==
    /\ proc[c].calls < MaxCacheOps
    /\ cache' = cache_set(cache, key, <<"brief", key>>, now)
    /\ proc' = [proc EXCEPT ![c].calls = @ + 1, ![c].op = "cache_set",
                            ![c].work = <<key>>, ![c].ret.brief = <<>>]
    /\ hist' = [hist EXCEPT !.accessed[key] = NextAccess(c)]
    /\ UNCHANGED <<db, wlock, now>>

\* half the lifetime of an entry passes
CacheTick ==
    /\ now < MaxCacheTicks * (CACHE_TTL_SECONDS \div 2)
    /\ now' = now + (CACHE_TTL_SECONDS \div 2)
    /\ UNCHANGED <<db, wlock, proc, hist, cache>>

NextCache ==
    \/ \E key \in CacheKeys : CacheRead("c1", key)
    \/ \E key \in CacheKeys : CacheWrite("c1", key)
    \/ CacheTick

SpecCache == InitCache /\ [][NextCache]_vars

\* ------------------------------------------ one process's brief requests
\* the server answers one request at a time and the cache is its own:
\* client c1 stands for the requests of one server process, each a pull,
\* client c2 for another process pushing to the same project
NextBrief ==
    \/ PullStart("c1", Workspaces, PullTaskTypes)
    \/ PullSeed("c1")
    \/ PullSeedBind("c1")
    \/ PullSeedWrite("c1")
    \/ PullHealth("c1")
    \/ WorkerBegin("c1")
    \/ WorkerResolve("c1")
    \/ WorkerBuild("c1")
    \/ WorkerDone("c1")
    \/ WorkerCommit("c1")
    \/ WorkerFailRead("c1")
    \/ WorkerFailWrite("c1")
    \/ PullBrief("c1")
    \/ PullEnqueue("c1")
    \/ PullAudit("c1")
    \/ PushCall("c2", {MakeArgs("wsB", NullStamp, PayloadK1)})
    \/ PushBind("c2")
    \/ PushBegin("c2")
    \/ PushWrite("c2")
    \/ PushCommit("c2")
    \/ PushAbort("c2")
    \/ Tick

SpecBrief == Init /\ [][NextBrief]_vars

\* ------------------------------------------------------ the drift detector
\* detect_drift over any work tree: the paths are source files f1, f2 and
\* a file r1 whose suffix the indexer does not support; a hash map gives
\* some of the source files one of two contents; a score is the fraction
\* <<numerator, denominator>>
DriftPaths == {"f1", "f2", "r1"}

SupportedPaths == {"f1", "f2"}

DriftHashes == {"h1", "h2"}

HashMaps ==
    UNION { [paths -> DriftHashes] : paths \in SUBSET SupportedPaths }

\* _filter_supported_paths
filter_supported_paths(raw_paths) == raw_paths \cap SupportedPaths

\* a variant of the git branch without the clamp
git_diff_result_raw(changed_files, known_hashes) ==
    LET denominator == Max(Cardinality(DOMAIN known_hashes), 1)
    IN  [ method |-> "git_diff",
          changed_files |-> changed_files,
          drift_score |-> <<Cardinality(changed_files), denominator>>,
          total_files |-> Cardinality(DOMAIN known_hashes) ]

\* detect_drift, the git branch: min(len(changed) / denominator, 1.0)
git_diff_result(changed_files, known_hashes) ==
    LET denominator == Max(Cardinality(DOMAIN known_hashes), 1)
    IN  [ method |-> "git_diff",
          changed_files |-> changed_files,
          drift_score |-> IF Cardinality(changed_files) > denominator
                          THEN <<1, 1>>
                          ELSE <<Cardinality(changed_files), denominator>>,
          total_files |-> Cardinality(DOMAIN known_hashes) ]

\* _detect_with_hash: known_hashes.get(key) != current_hashes.get(key)
\* over the union of the keys
hash_compare_result(known_hashes, current_hashes) ==
    LET known_keys == DOMAIN known_hashes
        current_keys == DOMAIN current_hashes
        all_keys == known_keys \cup current_keys
        changed == { key \in all_keys :
                       \/ key \notin known_keys
                       \/ key \notin current_keys
                       \/ known_hashes[key] # current_hashes[key] }
        denominator == Max(Cardinality(all_keys), 1)
    IN  [ method |-> "hash_compare",
          changed_files |-> changed,
          drift_score |-> <<Cardinality(changed), denominator>>,
          total_files |-> Cardinality(all_keys) ]

\* what the detector finds: git fails, or lists the changed and untracked
\* paths; the files on disk with their hashes
DriftTrees ==
    [ git : BOOLEAN, lines : SUBSET DriftPaths, current_hashes : HashMaps ]

\* detect_drift
drift_result(tree, known_hashes) ==
    IF tree.git
    THEN git_diff_result(filter_supported_paths(tree.lines), known_hashes)
    ELSE hash_compare_result(known_hashes, tree.current_hashes)

\* one call of detect_drift: its inputs in snap, its result in work
DriftCall(c) ==
    /\ \E tree \in DriftTrees, known_hashes \in HashMaps :
          proc' = [proc EXCEPT ![c] =
              [IdleProc EXCEPT
                  !.op = "detect_drift",
                  !.snap = <<[tree |-> tree, known_hashes |-> known_hashes]>>,
                  !.work = <<drift_result(tree, known_hashes)>>]]
    /\ UNCHANGED <<db, wlock, now, hist, cache>>

NextDrift == DriftCall("c1")

SpecDrift == Init /\ [][NextDrift]_vars

\* ------------------------------------------------------ several projects
\* a project_id is the sequence of the parts its text has between slashes:
\* "a" is <<"a">>, "a/../b" is <<"a", "..", "b">>, "" is <<>>
ProjectIds == {<<"a">>, <<"b">>, <<"a", "..", "b">>, <<>>}

\* a variant that lets every id through
validate_project_id_any(project_id) == ""

\* validate_project_id: the error it raises, "" for none; the pattern
\* admits letters, digits, dot, underscore and hyphen after a letter or
\* digit, so no slash
validate_project_id(project_id) ==
    IF project_id = <<>> THEN "INVALID_PROJECT_ID"
    ELSE IF \E i \in 1..Len(project_id) : project_id[i] = ".."
    THEN "INVALID_PROJECT_ID"
    ELSE IF Len(project_id) # 1 THEN "INVALID_PROJECT_ID"
    ELSE ""

\* the directory a path names once its ".." parts are followed
RECURSIVE ResolvePath(_, _)
ResolvePath(parts, done) ==
    IF parts = <<>> THEN done
    ELSE IF Head(parts) = ".."
    THEN ResolvePath(Tail(parts),
                     IF done = <<>> THEN <<>>
                     ELSE SubSeq(done, 1, Len(done) - 1))
    ELSE ResolvePath(Tail(parts), Append(done, Head(parts)))

\* MemoryStore.db_path: root_dir / "projects" / project_id / "memory.db",
\* as the file system finds it
db_path(project_id) ==
    ResolvePath(<<"projects">> \o project_id \o <<"memory.db">>, <<>>)

\* the store files there can be
StoreFiles == { db_path(id) : id \in {<<"a">>, <<"b">>} }

\* the one workspace of the server process, a plain directory
ServerWorkspace == "wsB"

\* a variant of the key without the project
project_cache_key_shared(project_id, task_type, catalog_version) ==
    <<"">> \o cache_key(task_type, catalog_version)

\* _cache_key with its project_id
project_cache_key(project_id, task_type, catalog_version) ==
    <<project_id>> \o cache_key(task_type, catalog_version)

\* resolve_project_workspace with the server's workspace
ProjectBind(d, workspace) ==
    IF d.workspace_root = NoWs THEN BindWorkspace(d, workspace) ELSE d

\* catalog_health_check: [db, health]
HealthCheck(d, workspace) ==
    LET d1 == IF fetch_catalog_hash_map(d) = {} THEN d
              ELSE insert_drift_report(ProjectBind(d, workspace),
                       detect_drift(workspace, fetch_catalog_hash_map(d)))
    IN  [db |-> d1, health |-> build_catalog_health(d1)]

\* process_catalog_jobs run to its end with nothing interleaved: up to n
\* jobs, every build succeeding or every build raising
RECURSIVE RunJobs(_, _, _, _, _)
RunJobs(d, n, workspace, builds, t) ==
    IF n = 0 THEN d
    ELSE LET res == claim_next_catalog_job(d, t, DEFAULT_LEASE_SECONDS)
         IN  IF res.job = 0 THEN d
             ELSE RunJobs(IF builds
                          THEN WorkerWrites(ProjectBind(res.db, workspace),
                                            res.job, workspace, t)
                          ELSE mark_catalog_job_failed(res.db, res.job, t),
                          n - 1, workspace, builds, t)

\* _ensure_catalog_seeded
SeedCatalog(d, workspace, t) ==
    IF get_catalog_meta(d) # <<>> /\ get_catalog_meta(d)[1].indexed_files > 0
    THEN d
    ELSE replace_catalog_snapshot(ProjectBind(d, workspace),
                                  build_catalog_snapshot(workspace), t)

\* the health check, the inline run on stale or unknown, the second check
HealthRun(first, workspace, builds, t) ==
    IF first.health.freshness \in {"stale", "unknown"}
    THEN HealthCheck(RunJobs(first.db, BRIEF_JOB_LIMIT, workspace, builds, t),
                     workspace)
    ELSE first

\* the brief after the health checks: [db, cache, key, stored, brief]
BriefMiss(d, c, key, payload, refresh, t) ==
    [ db |-> IF refresh
             THEN enqueue_catalog_job(d, RefreshPayload, DEFAULT_MAX_ATTEMPTS, t)
             ELSE d,
      cache |-> cache_set(c, key, payload, t),
      key |-> key,
      stored |-> TRUE,
      brief |-> [payload EXCEPT !.refresh_requested = refresh] ]

BriefHit(d, got, key, pending_jobs, health) ==
    [ db |-> d,
      cache |-> got.cache,
      key |-> key,
      stored |-> FALSE,
      brief |-> [got.payload[1] EXCEPT
                    !.cache_hit = TRUE,
                    !.pending_jobs = pending_jobs,
                    !.consistency_status = health.consistency_status] ]

BriefLookup(d, c, got, key, health, pending_jobs, t) ==
    IF got.payload # <<>>
    THEN BriefHit(d, got, key, pending_jobs, health)
    ELSE BriefMiss(d, got.cache, key, BriefPayload(health, pending_jobs),
                   health.freshness \in {"stale", "unknown"} /\ pending_jobs = 0,
                   t)

BriefRun(d, health, c, key, t) ==
    BriefLookup(d, c,
                IF health.freshness = "fresh" THEN cache_get(c, key, t)
                ELSE [cache |-> c, payload |-> <<>>],
                key, health, count_pending_catalog_jobs(d), t)

\* the memory part of the response of a pull
PullReads(d, task_type, t) ==
    [ role_payloads |-> fetch_role_payloads(d, roles_for_task(task_type)),
      open_loops_top |-> fetch_open_loops_top(d, 3),
      handoff_latest |-> fetch_latest_handoff(d, t),
      memory_version |-> get_memory_version(d) ]

PullEnd(reads, briefed, sync_id) ==
    [ db |-> insert_sync_audit(briefed.db, sync_id, "pull", sync_id[1], ""),
      cache |-> briefed.cache,
      key |-> briefed.key,
      stored |-> briefed.stored,
      response |-> [ role_payloads |-> reads.role_payloads,
                     open_loops_top |-> reads.open_loops_top,
                     handoff_latest |-> reads.handoff_latest,
                     memory_version |-> reads.memory_version,
                     brief |-> briefed.brief ] ]

PullBriefed(checked, c, project_id, task_type, t) ==
    BriefRun(checked.db, checked.health, c,
             project_cache_key(project_id, task_type,
                               checked.health.catalog_version), t)

\* session_sync_pull run to its end with nothing interleaved:
\* [db, cache, key, stored, response]
PullRun(d, c, project_id, task_type, builds, sync_id, t) ==
    PullEnd(PullReads(d, task_type, t),
            PullBriefed(HealthRun(HealthCheck(SeedCatalog(d, ServerWorkspace, t),
                                              ServerWorkspace),
                                  ServerWorkspace, builds, t),
                        c, project_id, task_type, t),
            sync_id)

\* what a push tagged x sends: a value, a loop and a summary of its own
TaggedArgs(x) ==
    [MakeArgs(ServerWorkspace, NoStamp,
              Payload(<<Delta(K1, x)>>, <<>>,
                      [new |-> <<[title |-> x, loop_id |-> 0]>>,
                       closed |-> <<>>]))
        EXCEPT !.session_summary = x]

Tags == {"a", "b"}

\* history of this specification: the <<project_id, tag>> pushed, and for
\* each cache key the projects whose requests stored under it
NoProjectHist == [pushed |-> {}, produced |-> {}]

\* a call on a project_id the store refuses
ProjectRefused(c, op, project_id) ==
    [proc EXCEPT ![c] =
        [IdleProc EXCEPT !.calls = proc[c].calls + 1, !.op = op,
                         !.snap = <<project_id>>,
                         !.ret = Raised(validate_project_id(project_id))]]

\* session_sync_push on a project, forced, run to its end
ProjectPush(c) ==
    /\ TotalCalls < MaxProjectCalls
    /\ \E project_id \in ProjectIds, x \in Tags :
          IF validate_project_id(project_id) # ""
          THEN /\ proc' = ProjectRefused(c, "push", project_id)
               /\ UNCHANGED <<db, hist>>
          ELSE LET file == db_path(project_id)
                   args == TaggedArgs(x)
                   sync_id == <<c, proc[c].calls + 1>>
                   d == ProjectBind(db[file], ServerWorkspace)
               IN  /\ db' = [db EXCEPT ![file] =
                              PushWrites(d, c, args, normalize_role_deltas(args),
                                         sync_id, now)]
                   /\ proc' = [proc EXCEPT ![c] =
                          [IdleProc EXCEPT !.calls = proc[c].calls + 1,
                                           !.op = "push",
                                           !.snap = <<project_id>>,
                                           !.ret = PushOk(d, sync_id)]]
                   /\ hist' = [hist EXCEPT
                                  !.pushed = @ \cup {<<project_id, x>>}]
    /\ UNCHANGED <<wlock, now, cache>>

\* session_sync_pull on a project, run to its end
ProjectPull(c) ==
    /\ TotalCalls < MaxProjectCalls
    /\ \E project_id \in ProjectIds, task_type \in PullTaskTypes,
          builds \in BOOLEAN :
          IF validate_project_id(project_id) # ""
          THEN /\ proc' = ProjectRefused(c, "pull", project_id)
               /\ UNCHANGED <<db, hist, cache>>
          ELSE LET file == db_path(project_id)
                   run == PullRun(db[file], cache, project_id, task_type,
                                  builds, <<c, proc[c].calls + 1>>, now)
               IN  /\ db' = [db EXCEPT ![file] = run.db]
                   /\ cache' = run.cache
                   /\ proc' = [proc EXCEPT ![c] =
                          [IdleProc EXCEPT !.calls = proc[c].calls + 1,
                                           !.op = "pull",
                                           !.snap = <<project_id>>,
                                           !.work = <<run.response, run.key>>,
                                           !.ret = [NoRet EXCEPT !.status = "ok"]]]
                   /\ hist' = IF run.stored
                              THEN [hist EXCEPT !.produced =
                                       @ \cup {<<run.key, project_id>>}]
                              ELSE hist
    /\ UNCHANGED <<wlock, now>>

InitProjects ==
    /\ db = [file \in StoreFiles |-> InitDb]
    /\ wlock = NoProc
    /\ proc = [p \in Procs |-> IdleProc]
    /\ now = 0
    /\ hist = NoProjectHist
    /\ cache = <<>>

NextProjects ==
    \/ \E c \in Clients : ProjectPush(c)
    \/ \E c \in Clients : ProjectPull(c)

SpecProjects == InitProjects /\ [][NextProjects]_vars

\* ------------------------------------------------ pushes that close loops
\* forced pushes that open no loop, two loops of one title or two loops of
\* two titles, and close by the id of the first loop ever generated, by an
\* id no loop has, by a title in use, twice over, or by a title not in use
LoopTitles == {"T1", "T2"}

NewLoops ==
    { <<>>,
      <<[title |-> "T1", loop_id |-> 0], [title |-> "T1", loop_id |-> 0]>>,
      <<[title |-> "T1", loop_id |-> 0], [title |-> "T2", loop_id |-> 0]>> }

CloseItems ==
    { [loop_id |-> 100, title |-> ""], [loop_id |-> 999, title |-> ""],
      [loop_id |-> 0, title |-> "T1"] }

ClosedLoops ==
    {<<>>, <<[loop_id |-> 0, title |-> "TX"]>>}
    \cup { <<x>> : x \in CloseItems }
    \cup { <<x, y>> : x \in CloseItems, y \in CloseItems }

LoopArgs ==
    { MakeArgs("wsB", NullStamp,
               Payload(<<>>, <<>>, [new |-> n, closed |-> cl])) :
        n \in NewLoops, cl \in ClosedLoops }

\* applied.open_loops_closed of the push response
applied_open_loops_closed(d, args) ==
    close_open_loops(insert_open_loops(bump_memory_version(d),
                                       args.loops.new).db,
                     args.loops.closed).closed

NextLoops ==
    \/ \E c \in Clients : PushCall(c, LoopArgs)
    \/ \E c \in Clients : PushBind(c)
    \/ \E c \in Clients : PushBegin(c)
    \/ \E c \in Clients : PushWrite(c)
    \/ \E c \in Clients : PushCommit(c)
    \/ \E c \in Clients : PushAbort(c)

SpecLoops == Init /\ [][NextLoops]_vars

\* ------------------------------------------------- handoffs over their TTL
\* pushes with a summary of their own, forced or on the base version 0,
\* pulls, and a clock that moves to the last second before a packet's
\* expiry and to the expiry itself
HandoffArgs ==
    { [MakeArgs("wsB", st, PayloadK1) EXCEPT !.session_summary = summary] :
        st \in {NullStamp, DictStamp(0)}, summary \in {"s1", "s2"} }

HandoffInstants ==
    UNION { { db.handoffs[i].ttl_expires_at - 1, db.handoffs[i].ttl_expires_at } :
            i \in 1..Len(db.handoffs) }

HandoffClock ==
    /\ \E t \in HandoffInstants :
          /\ t > now
          /\ \A u \in HandoffInstants : u > now => t <= u
          /\ now' = t
    /\ UNCHANGED <<db, wlock, proc, hist, cache>>

NextHandoff ==
    \/ \E c \in Clients : PushCall(c, HandoffArgs)
    \/ \E c \in Clients : PushBind(c)
    \/ \E c \in Clients : PushBegin(c)
    \/ \E c \in Clients : PushConflict(c)
    \/ \E c \in Clients : PushWrite(c)
    \/ \E c \in Clients : PushCommit(c)
    \/ \E c \in Clients : PushAbort(c)
    \/ \E c \in Clients : PullStart(c, {"wsB"}, {"implement"})
    \/ \E c \in Clients : PullSeed(c)
    \/ \E c \in Clients : PullSeedBind(c)
    \/ \E c \in Clients : PullSeedWrite(c)
    \/ \E c \in Clients : PullHealth(c)
    \/ \E c \in Clients : WorkerBegin(c)
    \/ \E c \in Clients : WorkerResolve(c)
    \/ \E c \in Clients : WorkerBuild(c)
    \/ \E c \in Clients : WorkerDone(c)
    \/ \E c \in Clients : WorkerCommit(c)
    \/ \E c \in Clients : WorkerFailRead(c)
    \/ \E c \in Clients : WorkerFailWrite(c)
    \/ \E c \in Clients : PullBrief(c)
    \/ \E c \in Clients : PullEnqueue(c)
    \/ \E c \in Clients : PullAudit(c)
    \/ HandoffClock

SpecHandoff == Init /\ [][NextHandoff]_vars

\* ============================================================ properties
\* a call of client c returns in this step
Returns(c) == proc[c].pc # "idle" /\ proc'[c].pc = "idle"

\* the push of client c returns ok in this step
ReturnsOk(c) == Returns(c) /\ proc'[c].ret.applied = "write"

\* table `after` is table `before` with n rows appended
Appended(before, after, n) ==
    /\ Len(after) = Len(before) + n
    /\ SubSeq(after, 1, Len(before)) = before

\* ------------------------------------------------------------------ C1
C1_Step ==
    /\ db'.memory_version >= db.memory_version
    /\ \A c \in Clients :
          ReturnsOk(c) =>
             /\ proc'[c].ret.memory_version = db.memory_version + 1
             /\ db'.memory_version = db.memory_version + 1

\* C1: over any run of pull, push and resolve_conflict calls, every push
\* that returns ok returns the memory_version stored immediately before it
\* plus 1, and the stored memory_version never decreases
C1_PushAdvancesByOne == [][C1_Step]_vars

\* a push has returned ok at version 2 on a project that was also pulled
C1_Witness ==
    /\ \E c \in Clients :
          proc[c].ret.applied = "write" /\ proc[c].ret.memory_version = 2
    /\ \E i \in 1..Len(db.audit) : db.audit[i].direction = "pull"

\* ------------------------------------------------------------------ C2
\* b < V and some pushed key has a version row newer than b
StaleFor(d, b, deltas) ==
    /\ b # NoStamp
    /\ b < d.memory_version
    /\ \E i \in 1..Len(deltas), j \in 1..Len(d.versions) :
          /\ d.versions[j].key = deltas[i].key
          /\ d.versions[j].memory_version > b

\* the conflict describes the newest row of its key that is newer than b
DescribesNewest(d, b, cf) ==
    \E j \in 1..Len(d.versions) :
        /\ d.versions[j].key = cf.key
        /\ d.versions[j].memory_version > b
        /\ \A k \in 1..Len(d.versions) :
              (d.versions[k].key = cf.key /\ d.versions[k].memory_version > b)
                 => \/ d.versions[k].memory_version < d.versions[j].memory_version
                    \/ /\ d.versions[k].memory_version = d.versions[j].memory_version
                       /\ k <= j
        /\ d.versions[j].value_json = <<"json">> \o cf.theirs
        /\ cf.current_version = d.versions[j].memory_version
        /\ cf.updated_by_client = d.versions[j].created_by_client

C2_Step ==
    \A c \in Clients :
        (Returns(c) /\ proc'[c].ret.status \in {"ok", "needs_resolution"}
                    /\ proc[c].op \in {"push", "keep_mine", "merge_note"}) =>
           LET b == proc[c].args.context_stamp
               conflicts == proc'[c].ret.conflicts
           IN  /\ proc'[c].ret.status = "needs_resolution"
                     <=> StaleFor(db, b, proc[c].deltas)
               /\ \A i \in 1..Len(conflicts) :
                     /\ DescribesNewest(db, b, conflicts[i])
                     /\ \E k \in 1..Len(proc[c].deltas) :
                           proc[c].deltas[k].key = conflicts[i].key
                     /\ \A k \in 1..Len(conflicts) :
                           conflicts[k].key = conflicts[i].key => k = i
               /\ proc'[c].ret.status = "needs_resolution" => conflicts # <<>>

\* C2: a push with base b against a project at version V returns
\* needs_resolution exactly when b < V and one of its keys (decisions
\* folded in) has a version row with memory_version > b, and ok in every
\* other case; each reported conflict describes the newest such row of its
\* key: its value as theirs, its memory_version, its writer
C2_ConflictExactlyWhenStale == [][C2_Step]_vars

\* a conflict was reported against the later of two rows written for the
\* key at the same version
C2_Witness ==
    \E c \in Clients :
        /\ proc[c].ret.status = "needs_resolution"
        /\ proc[c].ret.conflicts[1].theirs = <<"decision", "T">>
        /\ Cardinality({ j \in RowsOfKey(db, K1) :
                            db.versions[j].memory_version = 1 }) = 2

\* ------------------------------------------------------------------ C3
\* the store after the step is the store before it plus one audit row
OnlyAuditRowAdded ==
    /\ [db' EXCEPT !.audit = db.audit] = db
    /\ Appended(db.audit, db'.audit, 1)

C3_Step ==
    \A c \in Clients :
        /\ (Returns(c) /\ proc'[c].ret.status = "needs_resolution") =>
              /\ OnlyAuditRowAdded
              /\ Last(db'.audit).error_code = "CONFLICT_DETECTED"
              /\ Last(db'.audit).sync_id = proc'[c].ret.sync_id
        /\ (Returns(c) /\ proc[c].op = "accept_theirs"
                       /\ proc'[c].ret.status = "ok") =>
              /\ OnlyAuditRowAdded
              /\ proc'[c].ret.applied = "no_write"
              /\ Last(db'.audit).direction = "resolve_conflict"
              /\ Last(db'.audit).sync_id = proc'[c].ret.sync_id

\* C3: a push that returns needs_resolution and a resolve_conflict with
\* accept_theirs leave memory_version, the role state, its versions, the
\* open loops, handoff packets, catalog jobs and consistency links as they
\* were; the one row each adds is an audit row, with error_code
\* CONFLICT_DETECTED for the push
C3_ConflictAndAcceptOnlyAudit == [][C3_Step]_vars

\* one client's push came back needs_resolution and the other client's
\* accept_theirs came back, on a project holding versions, a handoff packet,
\* a job and a link
C3_Witness ==
    /\ \E c \in Clients : proc[c].ret.status = "needs_resolution"
    /\ \E c \in Clients : proc[c].ret.applied = "no_write"
    /\ db.memory_version = 1
    /\ Len(db.handoffs) = 1 /\ Len(db.jobs) = 1 /\ Len(db.links) = 1
    /\ Len(db.audit) = 3

\* ------------------------------------------------------------------ C4
\* client c's push carries a base and a key with which an earlier push,
\* made from that base when the store had reached it, returned ok
SameBaseSameKey(c) ==
    /\ proc[c].args.context_stamp # NoStamp
    /\ \E i \in 1..Len(proc[c].deltas) :
          <<proc[c].args.context_stamp, proc[c].deltas[i].key>> \in hist.okBases

C4_Step ==
    \A c \in Clients :
        (Returns(c) /\ SameBaseSameKey(c)) =>
            /\ proc'[c].ret.status \in {"needs_resolution", "error"}
            /\ proc'[c].ret.status = "error" => db' = db
            /\ proc'[c].ret.status = "needs_resolution" =>
                  /\ db'.versions = db.versions
                  /\ db'.current = db.current

\* C4: of two pushes made from the same context_stamp base b for the same
\* (role, memory_key), in every interleaving at most one returns ok; the
\* other returns needs_resolution or fails without writing
C4_OnePushPerBaseAndKey == [][C4_Step]_vars

\* of two clients pushing K1 from base 0, one has returned ok at version 1
\* and the other needs_resolution against that write
C4_Witness ==
    \E c1, c2 \in Clients :
        /\ c1 # c2
        /\ proc[c1].ret.applied = "write"
        /\ proc[c1].ret.memory_version = 1
        /\ <<0, K1>> \in hist.okBases
        /\ proc[c2].ret.status = "needs_resolution"
        /\ proc[c2].ret.conflicts[1].base_version = 0
        /\ proc[c2].ret.conflicts[1].key = K1
        /\ proc[c2].ret.conflicts[1].updated_by_client = c1

\* ------------------------------------------------------------------ C5
\* C5: in every interleaving of pushes on one project no two pushes that
\* return ok return the same memory_version, and the stored memory_version
\* is the initial one (0) plus the number of pushes that returned ok
C5_DistinctVersionsAndCount ==
    /\ Cardinality(hist.okVersions) = hist.okPushes
    /\ db.memory_version = hist.okPushes

\* two pushes have returned ok while a third, begun on the same snapshot as
\* one of them, was refused the write lock
C5_Witness ==
    /\ hist.okPushes = 2
    /\ hist.okVersions = {1, 2}
    /\ \E c \in Clients : proc[c].ret.error = "database is locked"

\* ------------------------------------------------------------------ C6
\* C6: a key has a current row exactly when it has a version row, it has
\* at most one, and the row's version is the largest memory_version among
\* the key's version rows
C6_CurrentIsNewestVersion ==
    /\ \A r \in db.current :
          /\ \E i \in 1..Len(db.versions) :
                /\ db.versions[i].key = r.key
                /\ db.versions[i].memory_version = r.version
          /\ \A i \in 1..Len(db.versions) :
                db.versions[i].key = r.key => db.versions[i].memory_version <= r.version
          /\ \A q \in db.current : q.key = r.key => q = r
    /\ \A i \in 1..Len(db.versions) :
          \E r \in db.current : r.key = db.versions[i].key

\* K1 has been written at version 1 and again at version 2
C6_Witness ==
    /\ \E r \in db.current : r.key = K1 /\ r.version = 2
    /\ \E i \in RowsOfKey(db, K1) : db.versions[i].memory_version = 1

\* ------------------------------------------------------------------ C7
C7_Step ==
    \A c \in Clients :
        /\ ReturnsOk(c) =>
              LET v == proc'[c].ret.memory_version
                  n == Len(proc[c].deltas)
              IN  /\ db'.memory_version = v
                  /\ Appended(db.versions, db'.versions, n)
                  /\ \A i \in (Len(db.versions) + 1)..Len(db'.versions) :
                        db'.versions[i].memory_version = v
                  /\ \A k \in 1..n :
                        \E r \in db'.current :
                            r.key = proc[c].deltas[k].key /\ r.version = v
                  /\ Appended(db.handoffs, db'.handoffs, 1)
                  /\ Last(db'.handoffs).memory_version = v
                  /\ Appended(db.jobs, db'.jobs, 1)
                  /\ Last(db'.jobs).status = "pending"
                  /\ Last(db'.jobs).payload.memory_version = v
                  /\ Last(db'.jobs).payload.sync_id = proc'[c].ret.sync_id
                  /\ Appended(db.links, db'.links, 1)
                  /\ Last(db'.links).memory_version = v
                  /\ Last(db'.links).consistency_status = "degraded"
                  /\ Appended(db.audit, db'.audit, 1)
                  /\ Last(db'.audit).sync_id = proc'[c].ret.sync_id
                  /\ Last(db'.audit).error_code = ""
        /\ (Returns(c) /\ proc[c].pc \in {"write", "commit"}
                       /\ proc'[c].ret.status = "error") => db' = db
        /\ ~Returns(c) /\ proc[c].pc \in {"begin", "write", "commit"} /\ proc[c].pc # proc'[c].pc
              => db' = db

\* C7: a push that returns ok at version v commits, in the one step of its
\* transaction, its role writes together with one handoff packet at v, one
\* pending job whose payload carries v and the push's sync_id, one
\* ConsistencyLink (v, degraded) and one audit row; a push that raises after
\* opening its transaction leaves no row and leaves memory_version as it was
C7_PushCommitsAllOrNothing == [][C7_Step]_vars

\* one push has committed at version 2 and another has raised inside its
\* transaction
C7_Witness ==
    /\ \E c \in Clients :
          proc[c].ret.applied = "write" /\ proc[c].ret.memory_version = 2
    /\ \E c \in Clients : proc[c].ret.error = "exception"
    /\ Len(db.jobs) = 2 /\ Len(db.handoffs) = 2 /\ Len(db.links) = 2

\* ------------------------------------------------------------------ C8
\* client c issues a push in this step, after a push from workspace w has
\* returned ok
PushIssuedAfterOkFrom(c, w) ==
    /\ proc[c].pc = "idle"
    /\ proc'[c].calls = proc[c].calls + 1
    /\ w \in hist.okWorkspaces

\* the push issued in this step goes on past the workspace check
PassesWorkspaceCheck(c) ==
    /\ proc'[c].op = "push"
    /\ proc'[c].pc \in {"bind", "begin"}

C8_Step ==
    \A c \in Clients, w \in Workspaces :
        /\ (PushIssuedAfterOkFrom(c, w) /\ PassesWorkspaceCheck(c)) =>
              proc'[c].args.workspace = w
        /\ (PushIssuedAfterOkFrom(c, w)
              /\ proc'[c].ret.error = "WORKSPACE_MISMATCH") => db' = db

\* C8: once a push from one workspace has returned ok, a later push from a
\* different workspace does not pass the workspace check (it fails with
\* WORKSPACE_MISMATCH), and the failed push leaves the store as it was
C8_LaterPushFromOtherWorkspaceFails == [][C8_Step]_vars

\* ------------------------------------------------------------------ C9
\* worker w is processing job j: it has claimed j, has not yet marked it
\* done or failed, and the lease it was given has not run out
Processing(w, j) ==
    /\ proc[w].pc \in {"w_resolve", "w_build", "w_done", "w_commit",
                       "w_fail", "w_fail_write"}
    /\ proc[w].job = j
    /\ proc[w].lease > now

\* C9: at any time at most one worker is processing a given catalog job
\* under a lease that has not run out
C9_AtMostOneWorkerPerJob ==
    \A j \in 1..Len(db.jobs) :
        \A w1, w2 \in Workers :
            (Processing(w1, j) /\ Processing(w2, j)) => w1 = w2

\* ----------------------------------------------------------------- C10
\* every worker has run process_catalog_jobs once and has returned
AllWorkersReturned ==
    \A w \in Workers : proc[w].pc = "idle" /\ proc[w].calls = 1

\* no run met a failing job
NoJobFailed ==
    \A w \in Workers :
        proc[w].ret.status = "ok" /\ proc[w].ret.stats.failed = 0

OkLinksOf(job) ==
    { i \in 1..Len(db.links) :
        /\ db.links[i].consistency_status = "ok"
        /\ db.links[i].sync_id = job.payload.sync_id }

OkLinks == { i \in 1..Len(db.links) : db.links[i].consistency_status = "ok" }

\* all jobs done after one claim each, with one ok link per job
AllDoneOnce ==
    /\ \A j \in 1..Len(db.jobs) :
          /\ db.jobs[j].status = "done"
          /\ db.jobs[j].attempts = 1
          /\ Cardinality(OkLinksOf(db.jobs[j])) = 1
    /\ Cardinality(OkLinks) = Len(db.jobs)

\* the claim as the specification words it
C10_AsWorded == (AllWorkersReturned /\ NoJobFailed) => AllDoneOnce

\* no run gave up on the write lock, no lease ran out on a running job, and
\* the limits of the runs add up to the number of jobs
RunsUndisturbed ==
    /\ \A w \in Workers : proc[w].ret.stats.lock_failures = 0
    /\ hist.lapsed = {}
    /\ proc["w1"].limit + proc["w2"].limit >= Len(db.jobs)

\* C10: when the workers have each run process_catalog_jobs once on a
\* project holding N claimable jobs, no job failed, no run gave up on the
\* write lock, no lease ran out and the limits add up to at least N, then
\* all N jobs are done, each with attempts = 1, and N ok ConsistencyLinks
\* were written, one per job
C10_AllJobsDoneOnce ==
    (AllWorkersReturned /\ NoJobFailed /\ RunsUndisturbed) => AllDoneOnce

\* both workers have returned, each having completed one of the two jobs
C10_Witness ==
    /\ AllWorkersReturned /\ NoJobFailed /\ RunsUndisturbed
    /\ Len(db.jobs) = 2
    /\ \A w \in Workers : proc[w].ret.stats.succeeded = 1
    /\ AllDoneOnce

\* ----------------------------------------------------------------- C11
\* worker p's claim_next_catalog_job returns a job in this step
Claims(p) == proc[p].pc = "w_begin" /\ proc'[p].pc = "w_resolve"

\* worker p's claim_next_catalog_job returns no job in this step
ClaimsNothing(p) ==
    /\ proc[p].pc = "w_begin"
    /\ proc'[p].pc = "idle"
    /\ proc'[p].ret.status = "ok"
    /\ proc'[p].ret.stats.lock_failures = proc[p].stats.lock_failures

\* what the claim says a job must look like to be handed out at time t
MayBeClaimed(job, t) ==
    \/ job.status = "pending"
         /\ (job.next_retry_at = NullTime \/ job.next_retry_at <= t)
    \/ job.status = "running"
         /\ (job.lease_expires_at = NullTime \/ job.lease_expires_at <= t)

C11_Step ==
    \A p \in Workers :
        /\ Claims(p) =>
              LET j == proc'[p].job
              IN  /\ j \in 1..Len(db.jobs)
                  /\ MayBeClaimed(db.jobs[j], now)
                  /\ db'.jobs[j].status = "running"
                  /\ db'.jobs[j].attempts = db.jobs[j].attempts + 1
                  /\ db'.jobs[j].lease_expires_at = now + DEFAULT_LEASE_SECONDS
                  /\ proc'[p].lease = now + DEFAULT_LEASE_SECONDS
                  /\ \A i \in 1..Len(db.jobs) : i # j => db'.jobs[i] = db.jobs[i]
                  /\ Len(db'.jobs) = Len(db.jobs)
        /\ ClaimsNothing(p) =>
              /\ db' = db
              /\ \A i \in 1..Len(db.jobs) : ~MayBeClaimed(db.jobs[i], now)

\* C11: claim_next_catalog_job hands out a job only if the job is pending
\* with next_retry_at null or reached, or running with lease_expires_at
\* null or reached (never a running job under a live lease, a done job or
\* a failed job); the claim sets status running, adds exactly 1 to attempts
\* and sets lease_expires_at to now + lease_seconds
C11_ClaimOnlyClaimable == [][C11_Step]_vars

\* a worker holds the job after re-claiming it from a lapsed lease
C11_Witness ==
    \E p \in Workers :
        /\ proc[p].pc = "w_resolve"
        /\ now = DEFAULT_LEASE_SECONDS
        /\ db.jobs[proc[p].job].attempts = 2
        /\ db.jobs[proc[p].job].lease_expires_at = now + DEFAULT_LEASE_SECONDS
        /\ 1 \in hist.lapsed

\* ----------------------------------------------------------------- C13
\* worker p records the failure of its job in this step
MarksFailed(p) ==
    /\ proc[p].pc = "w_fail_write"
    /\ proc'[p].pc # "w_fail_write"
    /\ db' # db

\* min(300, 2^attempts)
BackoffSeconds(attempts) ==
    IF 2^attempts <= 300 THEN 2^attempts ELSE 300

C13_Step ==
    \A p \in Workers :
        /\ MarksFailed(p) =>
              LET before == db.jobs[proc[p].job]
                  after == db'.jobs[proc[p].job]
              IN  /\ before.attempts >= before.max_attempts =>
                        after.status = "failed"
                  /\ before.attempts < before.max_attempts =>
                        /\ after.status = "pending"
                        /\ after.next_retry_at = now + BackoffSeconds(before.attempts)
                  /\ after.lease_expires_at = NullTime
                  /\ after.attempts = before.attempts
        /\ Claims(p) =>
              LET job == db.jobs[proc'[p].job]
              IN  job.status = "pending" =>
                      job.next_retry_at = NullTime \/ job.next_retry_at <= now
        /\ (proc[p].pc = "w_begin"
              /\ \A i \in 1..Len(db.jobs) :
                    db.jobs[i].status = "pending" /\ db.jobs[i].next_retry_at > now)
              => /\ proc'[p].pc # "w_resolve"
                 /\ (proc'[p].pc = "idle" /\ proc'[p].ret.status = "ok") =>
                        proc'[p].ret.stats.processed = proc[p].stats.processed

\* C13: a claimed job that fails becomes failed when attempts >=
\* max_attempts and otherwise pending with next_retry_at = now +
\* min(300, 2^attempts); either way its lease is cleared; a pending job is
\* not claimed before its next_retry_at: a run made while every job waits
\* for its retry time processes nothing
C13_FailureBacksOff == [][C13_Step]_vars

\* the job has failed four times and waits 16 seconds for its fifth attempt
C13_Witness ==
    /\ db.jobs[1].status = "pending"
    /\ db.jobs[1].attempts = 4
    /\ db.jobs[1].next_retry_at = now + 16
    /\ db.jobs[1].lease_expires_at = NullTime
    /\ \E p, q \in Workers :
          /\ proc[p].ret.stats.failed >= 1
          /\ proc[q].pc = "idle" /\ proc[q].calls >= 1
          /\ proc[q].ret.status = "ok" /\ proc[q].ret.stats.processed = 0

\* ----------------------------------------------------------------- C14
\* C14: in every reachable state every job has attempts <= max_attempts
C14_AttemptsBounded ==
    \A j \in 1..Len(db.jobs) : db.jobs[j].attempts <= db.jobs[j].max_attempts

\* ----------------------------------------------------------------- C12
\* job j is running and no worker process is working on it
Orphaned(j) ==
    /\ db.jobs[j].status = "running"
    /\ \A w \in Workers : proc[w].job # j

Settled(j) == db.jobs[j].status \in {"done", "failed"}

\* a stored lease or retry time lies beyond the last instant of the clock
HorizonReached == \E t \in Deadlines : t > MaxTime

PushJob(j) == db.jobs[j].payload.reason = "push"

\* the worker has committed the rebuild for job j: its ok link is stored
Rebuilt(j) ==
    \E i \in 1..Len(db.links) :
        /\ db.links[i].consistency_status = "ok"
        /\ db.links[i].sync_id = db.jobs[j].payload.sync_id

\* C15: while the job enqueued by a committed push has not been rebuilt,
\* the latest ConsistencyLink of the project, which is the status that
\* catalog_health, pull and accept_theirs report, is degraded
C15_DegradedUntilRebuilt ==
    \A j \in 1..Len(db.jobs) :
        (PushJob(j) /\ ~Rebuilt(j)) =>
            fetch_latest_consistency(db).consistency_status = "degraded"


\* C16: when a push has returned ok and the worker run that follows it at
\* once on the same project has succeeded for every job it took, with the
\* work tree unchanged and nothing else called on the project, the
\* catalog health computed next has consistency_status ok and freshness
\* fresh, and no job is pending or running.
OnlyCaller(c) == \A o \in Clients \ {c} : proc[o].calls = 0

RunSucceeded(c) ==
    /\ proc[c].stats.processed >= 1
    /\ proc[c].stats.succeeded = proc[c].stats.processed
    /\ proc[c].stats.failed = 0
    /\ proc[c].stats.lock_failures = 0

HealthAfterRun(c) ==
    /\ proc[c].pc = "p_health2"
    /\ proc'[c].pc = "p_brief"

C16_Step ==
    \A c \in Clients :
        ( /\ HealthAfterRun(c)
          /\ OnlyCaller(c)
          /\ hist.okPushes >= 1
          /\ RunSucceeded(c) )
        => /\ proc'[c].work[1].consistency_status = "ok"
           /\ proc'[c].work[1].freshness = "fresh"
           /\ proc'[c].work[1].pending_jobs = 0
           /\ count_pending_catalog_jobs(db') = 0

C16_FreshAfterPushAndWorkerRun == [][C16_Step]_vars


\* C17: after a push has returned ok with memory_version m, a pull made
\* before any other push returns, for every role its task type selects,
\* the key, the value and the version m of the push's deltas for that
\* role, and a consistency_stamp whose memory_version is m; the pull's
\* response keeps what it read.  As worded, for every delta of the push:
PullStarts(c) ==
    /\ proc[c].pc = "idle"
    /\ proc'[c].op = "pull"

Selects(role_payloads, role) ==
    \E i \in 1..Len(role_payloads) : role_payloads[i].role = role

HasItem(role_payloads, key, value, version) ==
    \E i \in 1..Len(role_payloads) :
        /\ role_payloads[i].role = key[1]
        /\ \E j \in 1..Len(role_payloads[i].items) :
              /\ role_payloads[i].items[j].memory_key = key[2]
              /\ role_payloads[i].items[j].value = value
              /\ role_payloads[i].items[j].version = version

PullKeepsWhatItRead(c) ==
    (proc[c].op = "pull" /\ proc'[c].ret.status = "ok")
    => /\ proc'[c].ret.role_payloads = proc[c].ret.role_payloads
       /\ proc'[c].ret.memory_version = proc[c].ret.memory_version

C17_AsWordedStep ==
    \A c \in Clients :
        /\ PullKeepsWhatItRead(c)
        /\ (PullStarts(c) /\ hist.lastPush.memory_version >= 1)
           => LET m == hist.lastPush.memory_version
                  deltas == hist.lastPush.deltas
              IN  /\ proc'[c].ret.memory_version = m
                  /\ \A i \in 1..Len(deltas) :
                        Selects(proc'[c].ret.role_payloads, deltas[i].key[1])
                        => HasItem(proc'[c].ret.role_payloads, deltas[i].key,
                                   deltas[i].value, m)

C17_AsWorded == [][C17_AsWordedStep]_vars

\* C17, as the code has it: the same for every delta that is the push's
\* last one for its key and is followed in the push by fewer than
\* PER_ROLE_LIMIT other keys of its role.
LastForKey(deltas, i) ==
    \A j \in (i + 1)..Len(deltas) : deltas[j].key # deltas[i].key

LaterKeysOfRole(deltas, i) ==
    { deltas[j].key : j \in { n \in (i + 1)..Len(deltas) :
                                deltas[n].key[1] = deltas[i].key[1] } }

C17_Step ==
    \A c \in Clients :
        /\ PullKeepsWhatItRead(c)
        /\ (PullStarts(c) /\ hist.lastPush.memory_version >= 1)
           => LET m == hist.lastPush.memory_version
                  deltas == hist.lastPush.deltas
              IN  /\ proc'[c].ret.memory_version = m
                  /\ \A i \in 1..Len(deltas) :
                        ( /\ Selects(proc'[c].ret.role_payloads, deltas[i].key[1])
                          /\ LastForKey(deltas, i)
                          /\ Cardinality(LaterKeysOfRole(deltas, i)) < PER_ROLE_LIMIT )
                        => HasItem(proc'[c].ret.role_payloads, deltas[i].key,
                                   deltas[i].value, m)

C17_PullReturnsPushedDeltas == [][C17_Step]_vars

\* a pull for planning has returned ok after the push of nine pm deltas,
\* with the last of them among the eight it carries for pm
C17_Witness ==
    \E c \in Clients :
        /\ proc[c].pc = "idle"
        /\ proc[c].ret.status = "ok"
        /\ proc[c].ret.role_payloads # <<>>
        /\ hist.lastPush.memory_version = proc[c].ret.memory_version
        /\ Len(hist.lastPush.deltas) > PER_ROLE_LIMIT
        /\ HasItem(proc[c].ret.role_payloads, <<"pm", "g9">>, <<"a">>,
                   hist.lastPush.memory_version)

Forced(c) ==
    \/ proc[c].op = "keep_mine"
    \/ proc[c].op = "push" /\ proc[c].args.stamp_kind = "null"

CurrentIs(d, key, value, version) ==
    \E r \in d.current :
        /\ r.key = key
        /\ json_loads(r.value_json, <<>>) = value
        /\ r.version = version
        /\ \A q \in d.current : q.key = key => q = r

C19_Step ==
    \A c \in Clients :
        Forced(c) =>
            /\ proc'[c].pc # "conflict"
            /\ Returns(c) =>
                  /\ proc'[c].ret.status # "needs_resolution"
                  /\ proc'[c].ret.status = "ok" =>
                        /\ get_memory_version(db') = get_memory_version(db) + 1
                        /\ proc'[c].ret.memory_version = get_memory_version(db')
                        /\ \A i \in 1..Len(proc[c].deltas) :
                              LastForKey(proc[c].deltas, i)
                              => CurrentIs(db', proc[c].deltas[i].key,
                                           proc[c].deltas[i].value,
                                           get_memory_version(db'))

TheirsBefore(d, key) ==
    IF fetch_current_value(d, key) = <<>> THEN JsonNull
    ELSE fetch_current_value(d, key)[1]

IsMergeNoteOf(value, theirs) ==
    /\ Len(value) >= 2
    /\ value[1] = "merge_note"
    /\ value[2] \in PlainValues
    /\ SubSeq(value, 3, Len(value)) = theirs

C20_Step ==
    \A c \in Clients :
        (ReturnsOk(c) /\ proc[c].op = "merge_note") =>
            /\ get_memory_version(db') > get_memory_version(db)
            /\ \A i \in 1..Len(proc[c].deltas) :
                  \E r \in db'.current :
                      /\ r.key = proc[c].deltas[i].key
                      /\ IsMergeNoteOf(json_loads(r.value_json, <<>>),
                                       TheirsBefore(db, r.key))

C20_MergeNoteRecordsTheirs == [][C20_Step]_vars

\* C21: resolve_conflict with accept_theirs answers applied = no_write and
\* the project's current stamp: the memory_version it returns is the
\* memory_version stored for the project when it reads, after any pushes
\* and worker runs.
AcceptReads(c) ==
    /\ proc[c].pc = "idle"
    /\ proc'[c].pc = "accept"

C21_Step ==
    \A c \in Clients :
        AcceptReads(c) =>
            /\ proc'[c].ret.applied = "no_write"
            /\ proc'[c].ret.status = "ok"
            /\ proc'[c].ret.memory_version = get_memory_version(db)

C21_AcceptReturnsStoredVersion == [][C21_Step]_vars

\* C22: every resolve_conflict call that returns ok, whichever of
\* accept_theirs, keep_mine and merge_note it was given, has added an
\* audit row whose direction is resolve_conflict.
C22_Step ==
    \A c \in Clients :
        (Returns(c) /\ proc[c].op \in Strategies /\ proc'[c].ret.status = "ok")
        => /\ Len(db'.audit) = Len(db.audit) + 1
           /\ Last(db'.audit).direction = "resolve_conflict"
           /\ Last(db'.audit).client_id = c

C22_ResolveAuditsAsResolve == [][C22_Step]_vars

\* C23: a push whose role_deltas holds an item with a role outside pm,
\* architect, dev, qa, with an empty memory_key or with a confidence
\* outside [0,1], and a push whose role_deltas is not a list, fails with
\* INVALID_PUSH_PAYLOAD; a push whose context_stamp is neither null, a
\* v<int> string nor an object with a non-negative integer
\* memory_version fails with INVALID_CONTEXT_STAMP; in both cases no
\* stored state changes.
RoleOutside(role) == \A r \in VALID_ROLES : Lower(Strip(role)) # Chars(r)

PayloadRefusable(sent) ==
    \/ sent.role_deltas_type = "str"
    \/ /\ sent.role_deltas_type = "list"
       /\ \E i \in 1..Len(sent.role_deltas) :
             \/ RoleOutside(sent.role_deltas[i].role)
             \/ Strip(sent.role_deltas[i].memory_key) = <<>>
             \/ sent.role_deltas[i].confidence \notin 0..100

StampRefusable(sent) ==
    sent.context_stamp \notin
        {NullStamp} \cup { DictStamp(n) : n \in 0..MaxStamp }
                    \cup { LegacyStamp(n) : n \in 0..MaxStamp }

SendsPush(c) ==
    /\ proc[c].pc = "idle"
    /\ proc'[c].calls = proc[c].calls + 1
    /\ hist'.sent # <<>>

C23_Step ==
    \A c \in Clients :
        LET sent == Head(hist'.sent)
        IN  SendsPush(c) =>
            /\ (PayloadRefusable(sent) \/ StampRefusable(sent)) =>
                  /\ proc'[c].ret.status = "error"
                  /\ db' = db
            /\ (PayloadRefusable(sent) /\ ~StampRefusable(sent)) =>
                  proc'[c].ret.error = "INVALID_PUSH_PAYLOAD"
            /\ (StampRefusable(sent) /\ ~PayloadRefusable(sent)) =>
                  proc'[c].ret.error = "INVALID_CONTEXT_STAMP"

C23_InvalidPushRefused == [][C23_Step]_vars

\* C24: every tools/call that fails, with a business error, invalid
\* parameters or an unexpected failure, adds exactly one SyncAudit row
\* carrying the error code and the failing tool's mapped direction.
AnswersError(c) == ErrorPending(c) /\ proc'[c].ret.status = "rpc_error"

C24_Step ==
    \A c \in Clients :
        AnswersError(c) =>
            /\ Len(db'.audit) = Len(db.audit) + 1
            /\ Last(db'.audit).error_code = proc'[c].ret.error
            /\ Last(db'.audit).direction =
                  audit_direction(Head(hist.request[c]).name)

C24_EveryFailureAudited == [][C24_Step]_vars

\* C25: opening an already initialised store again is idempotent: the
\* open applies no migration, adds no schema_migrations row, leaves
\* memory_version and all other stored data unchanged, and succeeds.
OpenEvents(c, log) == { i \in 1..Len(log) : log[i].who = c /\ log[i].what = "open" }

BeganInitialised(c, log) ==
    /\ OpenEvents(c, log) # {}
    /\ log[CHOOSE i \in OpenEvents(c, log) :
              \A j \in OpenEvents(c, log) : j <= i].full

C25_Step ==
    \A c \in Clients :
        /\ (proc[c].pc = "idle" /\ proc'[c].op = "open" /\ Initialised(db))
           => db' = db
        /\ (proc[c].op = "open" /\ proc'[c] # proc[c]
              /\ BeganInitialised(c, hist.migrated))
           => /\ db' = db
              /\ hist'.migrated = hist.migrated
              /\ proc'[c].ret.status # "error"

C25_ReopenIsIdempotent == [][C25_Step]_vars

\* an open has migrated the store and a later open of it has returned
C25_Witness ==
    \E c \in Clients :
        /\ proc[c].pc = "idle"
        /\ proc[c].ret.status = "ok"
        /\ BeganInitialised(c, hist.migrated)
        /\ \E i \in 1..Len(hist.migrated) : hist.migrated[i].what = "006"

\* C26: an open that finds sync_audit_new without sync_audit renames it
\* to sync_audit before it applies any pending migration; after the open
\* sync_audit exists, sync_audit_new does not, every migration is
\* recorded and audit inserts with direction catalog_brief succeed.
AuditAccepts(d, direction) ==
    /\ "sync_audit" \in d.schema.tables
    /\ direction \in d.schema.directions.sync_audit

Undisturbed(c) == \A o \in Clients \ {c} : proc[o].calls = 0

AppliesMigration ==
    /\ Len(hist'.migrated) = Len(hist.migrated) + 1
    /\ Last(hist'.migrated).what \in AllVersions

OpenReturns(c) == proc[c].op = "open" /\ proc'[c].pc = "idle"

C26_Step ==
    /\ AppliesMigration => ~HalfMigrated(db.schema)
    /\ \A c \in Clients :
          /\ (OpenReturns(c) /\ Undisturbed(c)) => proc'[c].ret.status = "ok"
          /\ (OpenReturns(c) /\ proc'[c].ret.status = "ok")
             => /\ "sync_audit" \in db'.schema.tables
                /\ "sync_audit_new" \notin db'.schema.tables
                /\ db'.schema.migrations = AllVersions
                /\ AuditAccepts(db', "catalog_brief")
                /\ Initialised(db')

C26_HalfMigratedHeals == [][C26_Step]_vars

\* an open has renamed sync_audit_new, applied 006 and returned
C26_Witness ==
    \E c \in Clients :
        /\ proc[c].pc = "idle"
        /\ proc[c].ret.status = "ok"
        /\ \E i, j \in 1..Len(hist.migrated) :
              /\ i < j
              /\ hist.migrated[i] = Event(c, "heal", FALSE)
              /\ hist.migrated[j] = Event(c, "006", FALSE)
        /\ AuditAccepts(db, "catalog_brief")
        /\ db.memory_version = 2

\* C27: the brief cache receives a new entry only from a brief generation
\* whose catalog health reports freshness fresh; a generation that sees
\* freshness stale or unknown leaves the cache unchanged.
GeneratesBrief(c) == proc[c].pc = "p_brief" /\ proc'[c].pc # "p_brief"

C27_Step ==
    \A c \in Clients :
        (GeneratesBrief(c) /\ proc[c].work[1].freshness \in {"stale", "unknown"})
        => cache' = cache

C27_CacheOnlyWhenFresh == [][C27_Step]_vars

\* C28: after any sequence of cache reads and writes the brief cache holds
\* at most 256 entries; when an insertion exceeds the capacity the entry
\* evicted is the least recently accessed one (a read hit or a write makes
\* an entry most recent); an entry whose TTL of 30 minutes has elapsed is
\* never returned and is removed when read.
CachedKeys(c) == { c[i].key : i \in 1..Len(c) }

EntryOf(c, key) == c[CHOOSE i \in 1..Len(c) : c[i].key = key]

Elapsed(entry, t) == t - (entry.expires_at - 30 * 60) >= 30 * 60

C28_Step ==
    /\ Len(cache') <= 256
    /\ \A key \in CacheKeys :
          /\ (proc'["c1"].op = "cache_set" /\ proc'["c1"].work = <<key>>
                /\ proc'["c1"].calls = proc["c1"].calls + 1)
             => /\ key \in CachedKeys(cache')
                /\ EntryOf(cache', key).expires_at = now + 30 * 60
                /\ \A gone \in CachedKeys(cache) \ CachedKeys(cache') :
                      /\ Len(cache) = 256
                      /\ key \notin CachedKeys(cache)
                      /\ \A kept \in CachedKeys(cache) :
                            hist.accessed[gone] <= hist.accessed[kept]
                /\ Len(cache') >= Len(cache) \/ Len(cache) = 256
          /\ (proc'["c1"].op = "cache_get" /\ proc'["c1"].work = <<key>>
                /\ proc'["c1"].calls = proc["c1"].calls + 1)
             => /\ (key \in CachedKeys(cache) /\ Elapsed(EntryOf(cache, key), now))
                   => /\ proc'["c1"].ret.brief = <<>>
                      /\ key \notin CachedKeys(cache')
                /\ (key \in CachedKeys(cache) /\ ~Elapsed(EntryOf(cache, key), now))
                   => /\ proc'["c1"].ret.brief = <<EntryOf(cache, key).payload>>
                      /\ CachedKeys(cache') = CachedKeys(cache)
                /\ key \notin CachedKeys(cache)
                   => proc'["c1"].ret.brief = <<>> /\ cache' = cache

C28_CacheIsBoundedLru == [][C28_Step]_vars

\* key 1, the oldest, was accessed again; a write of a new key to the full
\* cache then evicted key 2; a read of key 1 after its lifetime removed it
C28_Witness ==
    /\ Len(cache) = 255
    /\ hist.accessed[1] > 256
    /\ 1 \notin CachedKeys(cache)
    /\ 2 \notin CachedKeys(cache)
    /\ 257 \in CachedKeys(cache)
    /\ now >= 30 * 60
    /\ proc["c1"].op = "cache_get"
    /\ proc["c1"].work = <<1>>
    /\ proc["c1"].ret.brief = <<>>

\* C29: of two consecutive brief requests with the same project, prompt,
\* task type and token budget, made while the catalog is fresh and its
\* catalog_version is unchanged, the first reports cache_hit false and
\* the second cache_hit true (a request made while the catalog is fresh
\* is a hit exactly when a request made while it was fresh came before
\* it under the same key); a hit reports pending_jobs and
\* consistency_status as read from the store by the request that hits,
\* not the values stored in the cached payload.
BriefKey(c) ==
    cache_key(proc[c].args.task_type, proc[c].work[1].catalog_version)

C29_Step ==
    \A c \in Clients :
        (GeneratesBrief(c) /\ proc[c].work[1].freshness = "fresh")
        => LET brief == proc'[c].ret.brief[1]
           IN  /\ brief.cache_hit = (BriefKey(c) \in hist.freshKeys)
               /\ brief.cache_hit =>
                     /\ brief.pending_jobs = count_pending_catalog_jobs(db)
                     /\ brief.consistency_status =
                           proc[c].work[1].consistency_status

C29_SecondRequestHits == [][C29_Step]_vars

\* C30: a pull never changes memory_version, RoleStateCurrent,
\* RoleStateVersions, the open loops or the handoff packets of the
\* project; of the opened store it changes nothing but the catalog, the
\* catalog jobs, the consistency links, the drift reports, the workspace
\* binding and the audit log.
MemoryOf(d) ==
    <<d.memory_version, d.current, d.versions, d.loops, d.handoffs>>

\* what a pull may write
PullMayChange == {"catalog", "jobs", "links", "drift", "workspace_root", "audit"}

\* client c takes a step of a pull: its start, its reads, its inline
\* worker run, its writes, its return
PullSteps(c) ==
    /\ proc'[c] # proc[c]
    /\ proc[c].op = "pull" \/ proc'[c].op = "pull"

C30_Step ==
    \A c \in Clients :
        PullSteps(c)
        => /\ MemoryOf(db') = MemoryOf(db)
           /\ \A f \in (DOMAIN db) \ PullMayChange : db'[f] = db[f]

C30_PullLeavesMemory == [][C30_Step]_vars

\* a pull has returned ok after a push: the store holds memory, and the
\* pull path has written the catalog, drift reports, job results and its
\* audit row
C30_Witness ==
    /\ db.memory_version > 0
    /\ db.current # {}
    /\ db.handoffs # <<>>
    /\ db.catalog # <<>>
    /\ db.drift # <<>>
    /\ db.links # <<>>
    /\ \E i, j \in 1..Len(db.audit) :
          /\ i < j
          /\ db.audit[i].direction = "push" /\ db.audit[i].error_code = ""
          /\ db.audit[j].direction = "pull" /\ db.audit[j].error_code = ""

\* C31: a brief generation (also the one inside a pull) enqueues at most
\* one incremental_refresh job, and only when the catalog health is stale
\* or unknown and the project has no pending or running job; the returned
\* refresh_requested is true exactly when the generation enqueued a job.
NewJobs(c) ==
    { i \in 1..Len(db'.jobs) : i > Len(db.jobs) }

\* the brief generation of client c enqueues in this step
EnqueuesRefresh(c) ==
    /\ proc[c].op = "pull"
    /\ proc'[c] # proc[c]
    /\ NewJobs(c) # {}

C31_Step ==
    \A c \in Clients :
        /\ EnqueuesRefresh(c)
           => /\ Cardinality(NewJobs(c)) = 1
              /\ \A i \in NewJobs(c) :
                    db'.jobs[i].job_type = "incremental_refresh"
              /\ proc[c].work[1].freshness \in {"stale", "unknown"}
              /\ count_pending_catalog_jobs(db) = 0
        /\ (proc[c].pc \in {"p_brief", "p_enqueue"} /\ proc'[c].pc = "p_audit")
           => proc'[c].ret.brief[1].refresh_requested = (NewJobs(c) # {})
        /\ (proc[c].pc = "p_audit" /\ Returns(c) /\ proc'[c].ret.status = "ok")
           => proc'[c].ret.brief = proc[c].ret.brief

C31_RefreshOnlyWhenIdle == [][C31_Step]_vars

\* C32: every drift result has a drift_score between 0.0 and 1.0, with
\* the git_diff method (also when more files changed than the catalog
\* knows, and when it knows none) and with the hash_compare fallback.
InUnitRange(score) ==
    /\ score[2] >= 1
    /\ 0 <= score[1]
    /\ score[1] <= score[2]

DriftResults ==
    { proc[c].work[1] : c \in { x \in Clients : proc[x].op = "detect_drift" } }

C32_DriftScoreInUnitRange ==
    \A result \in DriftResults :
        /\ result.method \in {"git_diff", "hash_compare"}
        /\ InUnitRange(result.drift_score)

\* git lists two changed source files where the catalog knows one: the
\* score is clamped to 1.0
C32_Witness ==
    /\ proc["c1"].op = "detect_drift"
    /\ proc["c1"].work[1].method = "git_diff"
    /\ Cardinality(proc["c1"].work[1].changed_files) = 2
    /\ proc["c1"].work[1].total_files = 1
    /\ proc["c1"].work[1].drift_score = <<1, 1>>

\* C33: no operation on a project changes any stored state of a different
\* project, and a pull on a project never returns role values, loops,
\* handoffs or catalog briefs produced for another project, also not
\* through the brief cache of the process.
CalledProject(c) == proc'[c].snap[1]

Calls(c) == proc'[c].calls = proc[c].calls + 1

\* the role values in what a pull returned
ReturnedValues(response) ==
    UNION { { response.role_payloads[i].items[j].value :
                j \in 1..Len(response.role_payloads[i].items) } :
            i \in 1..Len(response.role_payloads) }

\* the loop titles and the handoff summary in what a pull returned
ReturnedTags(response) ==
    { response.open_loops_top[i].title :
        i \in 1..Len(response.open_loops_top) }
    \cup { response.handoff_latest[i].summary :
             i \in 1..Len(response.handoff_latest) }

\* the projects whose requests stored a payload under the key
ProducedFor(key) ==
    { p \in ProjectIds : <<key, p>> \in hist.produced }

C33_Step ==
    \A c \in Clients :
        Calls(c)
        => /\ \A other \in ProjectIds :
                (validate_project_id(other) = "" /\ other # CalledProject(c))
                => db'[db_path(other)] = db[db_path(other)]
           /\ (proc'[c].op = "pull" /\ proc'[c].ret.status = "ok")
              => /\ \A x \in ReturnedTags(proc'[c].work[1]) :
                       <<CalledProject(c), x>> \in hist.pushed
                 /\ \A v \in ReturnedValues(proc'[c].work[1]) :
                       \E x \in Tags : /\ v = <<x>>
                                       /\ <<CalledProject(c), x>> \in hist.pushed
                 /\ proc'[c].work[1].brief.cache_hit
                    => ProducedFor(proc'[c].work[2]) = {CalledProject(c)}

C33_ProjectsAreIsolated == [][C33_Step]_vars

\* a pull on project b is served from the cache while the cache holds an
\* entry of project a for the same task type and catalog version, and
\* project a holds pushed state: b's response carries none of it
C33_Witness ==
    \E c \in Clients :
        /\ proc[c].op = "pull"
        /\ proc[c].snap = <<<<"b">>>>
        /\ proc[c].ret.status = "ok"
        /\ proc[c].work[1].brief.cache_hit
        /\ \E i \in 1..Len(cache) :
              /\ cache[i].key[1] = <<"a">>
              /\ Tail(cache[i].key) = Tail(proc[c].work[2])
        /\ db[db_path(<<"a">>)].current # {}
        /\ db[db_path(<<"a">>)].handoffs # <<>>
        /\ db[db_path(<<"b">>)].memory_version = 0
        /\ ReturnedValues(proc[c].work[1]) = {}
        /\ ReturnedTags(proc[c].work[1]) = {}

\* C34: in a push, closing by loop_id changes only the loop with that id
\* and only if it is open; closing by title closes every open loop whose
\* title is exactly equal; an id or title that matches no open loop
\* changes nothing and does not fail the push; applied.open_loops_closed
\* lists exactly the loops that went from open to closed; a closed loop
\* never becomes open again.
LoopNamed(loop, items) ==
    \E k \in 1..Len(items) :
        IF items[k].loop_id # 0 THEN loop.loop_id = items[k].loop_id
        ELSE items[k].title # "" /\ loop.title = items[k].title

\* the push of client c commits in this step
PushCommits(c) ==
    /\ proc[c].op = "push"
    /\ proc[c].pc = "commit"
    /\ proc'[c].ret.status = "ok"

\* loop i of the store after the push was open before the push closed
\* anything: it was stored open, or the push inserted it
OpenBefore(i) ==
    i > Len(db.loops) \/ db.loops[i].status = "open"

C34_Step ==
    /\ \A i \in 1..Len(db.loops) :
          /\ i <= Len(db'.loops)
          /\ db'.loops[i].loop_id = db.loops[i].loop_id
          /\ db'.loops[i].title = db.loops[i].title
          /\ db.loops[i].status = "closed" => db'.loops[i].status = "closed"
    /\ \A c \in Clients :
          PushCommits(c)
          => LET items == proc[c].args.loops.closed
                 listed == applied_open_loops_closed(db, proc[c].args)
                 went == { i \in 1..Len(db'.loops) :
                             OpenBefore(i) /\ db'.loops[i].status = "closed" }
             IN  /\ \A i \in 1..Len(db'.loops) :
                       OpenBefore(i)
                       => (db'.loops[i].status = "closed")
                             = LoopNamed(db'.loops[i], items)
                 /\ { listed[k] : k \in 1..Len(listed) }
                       = { db'.loops[i].loop_id : i \in went }
                 /\ Len(listed) = Cardinality(went)

C34_ClosingLoops == [][C34_Step]_vars

\* pushes went through that closed two open loops of one title, with a
\* loop of another title still open
C34_Witness ==
    /\ hist.okPushes >= 2
    /\ \E i, j, k \in 1..Len(db.loops) :
          /\ i # j
          /\ db.loops[i].title = "T1" /\ db.loops[i].status = "closed"
          /\ db.loops[j].title = "T1" /\ db.loops[j].status = "closed"
          /\ db.loops[k].title = "T2" /\ db.loops[k].status = "open"

\* C35: after a push returned ok with memory_version v, the next pull on
\* the project, made before any other successful push and before the 72
\* hours of the packet's TTL are over, returns handoff_latest with
\* memory_version v and that push's session summary; a packet whose TTL
\* has elapsed is never returned; a push that returns ok stores one packet
\* of its version and summary expiring at most 72 hours later; a push that
\* returns needs_resolution emits no packet.
PacketsOf(v) ==
    { i \in 1..Len(db.handoffs) : db.handoffs[i].memory_version = v }

\* the push of client c returns needs_resolution in this step
ReturnsNeedsResolution(c) ==
    /\ proc[c].pc = "conflict"
    /\ proc'[c].ret.status = "needs_resolution"

C35_Step ==
    \A c \in Clients :
        /\ PullStarts(c)
           => LET latest == proc'[c].ret.handoff_latest
                  v == hist.lastPush.memory_version
              IN  /\ \A k \in 1..Len(latest) : latest[k].ttl_expires_at > now
                  /\ (v >= 1 /\ \E i \in PacketsOf(v) :
                                    now < db.handoffs[i].ttl_expires_at)
                     => /\ Len(latest) = 1
                        /\ latest[1].memory_version = v
                        /\ latest[1].summary = hist.lastPush.summary
        /\ PushCommits(c)
           => /\ Appended(db.handoffs, db'.handoffs, 1)
              /\ Last(db'.handoffs).memory_version = proc'[c].ret.memory_version
              /\ Last(db'.handoffs).summary = proc[c].args.session_summary
              /\ Last(db'.handoffs).ttl_expires_at
                     <= now + DEFAULT_HANDOFF_TTL_HOURS * 3600
        /\ ReturnsNeedsResolution(c) => db'.handoffs = db.handoffs

C35_HandoffSurfaces == [][C35_Step]_vars

\* a pull returned the packet of the second push, one second before its
\* expiry, when the packet of the first push had expired
C35_Witness ==
    \E c \in Clients :
        /\ proc[c].op = "pull"
        /\ proc[c].ret.handoff_latest # <<>>
        /\ proc[c].ret.handoff_latest[1].memory_version = 2
        /\ proc[c].ret.handoff_latest[1].summary = "s2"
        /\ proc[c].ret.handoff_latest[1].ttl_expires_at = now + 1
        /\ Len(db.handoffs) = 2
        /\ db.handoffs[1].summary = "s1"
        /\ db.handoffs[1].ttl_expires_at <= now

\* C36: the tool session.sync.audit.list answers a call whose limit is
\* between 1 and 500 with a result (at most limit entries of the project and
\* direction asked for, newest first), and refuses a limit outside that
\* range with the business error INVALID_AUDIT_QUERY.
ListsAudit(c) ==
    /\ hist.request[c] # <<>>
    /\ Head(hist.request[c]).name = "session.sync.audit.list"

C36_AuditList ==
    \A c \in Clients :
        ListsAudit(c)
        => LET limit == Head(hist.request[c]).arguments.limit
           IN  IF limit \in 1..500
               THEN proc[c].ret.status \notin {"error", "rpc_error"}
               ELSE proc[c].ret.status = "rpc_error"
                    => proc[c].ret.error = "INVALID_AUDIT_QUERY"

\* C37: for each job a worker claims, either the catalog replacement, the
\* ok ConsistencyLink of the job and the job's done status are committed in
\* one step, or, when the snapshot build or that transaction raised, none of
\* the three becomes visible and the job is marked failed as the backoff
\* rule says; the call never lets go of a job it claimed without one of the
\* two, so it leaves no job it claimed running.
WorkerSteps37(p) ==
    /\ proc[p].op = "worker"
    /\ proc'[p] # proc[p]

DoneJobs(d) == { i \in 1..Len(d.jobs) : d.jobs[i].status = "done" }

CommitsTogether(p) ==
    /\ db'.catalog # <<>>
    /\ db'.catalog[1].source_root = proc[p].args.workspace
    /\ Appended(db.links, db'.links, 1)
    /\ Last(db'.links).consistency_status = "ok"
    /\ Last(db'.links).catalog_version = catalog_version_of(db')
    /\ db'.jobs[proc[p].job].status = "done"

NoneVisible ==
    /\ db'.catalog = db.catalog
    /\ db'.links = db.links
    /\ DoneJobs(db') = DoneJobs(db)

C37_Step ==
    \A p \in Workers :
        WorkerSteps37(p)
        => /\ IF proc[p].pc = "w_commit" THEN CommitsTogether(p) ELSE NoneVisible
           /\ (proc[p].job # 0 /\ proc'[p].job # proc[p].job /\ proc[p].pc # "w_commit")
              => db' = mark_catalog_job_failed(db, proc[p].job, now)

C37_JobSettledTogether == [][C37_Step]_vars

\* C38: once a project's stored workspace_root is non-null no operation
\* changes it: a later operation from another workspace fails with
\* WORKSPACE_MISMATCH and does not re-bind, also when several first-use
\* operations from different workspaces run concurrently.
C38_Step ==
    db.workspace_root # NoWs => db'.workspace_root = db.workspace_root

C38_WorkspaceBoundOnce == [][C38_Step]_vars

\* C39: process_catalog_jobs never raises because the project store is
\* locked: every call ends by returning its stats, and a call whose BEGIN
\* IMMEDIATE found the write lock held through all its attempts stops the
\* batch, returns lock_failures > 0 and leaves every job as it was.
WorkerEnds(p) ==
    /\ proc[p].op = "worker"
    /\ proc'[p].pc = "idle"

C39_Step ==
    \A p \in Workers :
        WorkerEnds(p)
        => /\ proc'[p].ret.status = "ok"
           /\ (proc[p].pc = "w_begin" /\ LockTimeout(p))
              => /\ proc'[p].ret.stats.lock_failures > 0
                 /\ db'.jobs = db.jobs

C39_WorkerNeverRaisesOnLock == [][C39_Step]_vars

\* C40: a catalog job's status changes only from pending to running, from
\* running to running (a re-claim), to done, to pending or to failed; done
\* and failed are final, also when a worker whose lease has lapsed finishes
\* or fails after another worker re-claimed or completed the job.
StatusMoves ==
    { <<"pending", "running">>, <<"running", "running">>, <<"running", "done">>,
      <<"running", "pending">>, <<"running", "failed">> }

C40_Step ==
    \A i \in 1..Len(db.jobs) :
        \/ db'.jobs[i].status = db.jobs[i].status
        \/ <<db.jobs[i].status, db'.jobs[i].status>> \in StatusMoves

C40_JobStatusMoves == [][C40_Step]_vars

====
